---- MODULE Spec2Model ----
(***************************************************************************)
(* BetterCurve (src/curvature.h, src/curvature.cpp): a sorted store of     *)
(* control points, a range manager, a baked sample table and the           *)
(* background thread that rebuilds the table after edits.                  *)
(*                                                                         *)
(* real_t values are modelled as exact rationals <<n, d>> (d > 0, reduced) *)
(* extended with the IEEE specials +inf = <<1,0>>, -inf = <<-1,0>> and     *)
(* NaN = <<0,0>>; rounding of the floating point operations is not         *)
(* modelled.  Indices are 0-based as in the source; At(v, i) reads v[i].   *)
(***************************************************************************)
EXTENDS Integers, Sequences, FiniteSets, TLC

VARIABLES
    _points,            \* Vector<Point> _points
    _baked_cache,       \* Vector<real_t> _baked_cache
    _bake_resolution,   \* int _bake_resolution
    _min_value,         \* real_t _min_value
    _max_value,         \* real_t _max_value
    _minmax_set_once,   \* int _minmax_set_once (two bits)
    _update_queued,     \* bool _update_queued
    _update_thread,     \* std::thread _update_thread: "none", or the worker's position
    _update_queue_mutex,\* owner of std::mutex _update_queue_mutex, or Nobody
    _update_param_mutex,\* owner of std::mutex _update_param_mutex, or Nobody
    _getter_mutex,      \* std::shared_mutex _getter_mutex: [writer, readers]
    local_points,       \* _update_bake: Vector<Point> local_points
    cache,              \* _update_bake: Vector<real_t> cache
    _baked_cache_dirty, \* bool _baked_cache_dirty
    pc,                 \* per caller thread: position inside the call in progress
    call,               \* per caller thread: the call in progress and its locals
    ncalls,             \* calls begun so far, where a specification bounds them
    hist                \* observation record (publishes, signals, last call)

vars == <<_points, _baked_cache, _bake_resolution, _min_value, _max_value,
          _minmax_set_once, _update_queued, _update_thread,
          _update_queue_mutex, _update_param_mutex, _getter_mutex,
          local_points, cache, _baked_cache_dirty, pc, call, ncalls, hist>>

-----------------------------------------------------------------------------
(* real_t arithmetic                                                       *)

Abs(n) == IF n < 0 THEN -n ELSE n

Sgn(n) == IF n > 0 THEN 1 ELSE IF n < 0 THEN -1 ELSE 0

RECURSIVE Gcd(_, _)
Gcd(a, b) == IF b = 0 THEN a ELSE Gcd(b, a % b)

NaN == <<0, 0>>

\* n/d as a reduced fraction; d = 0 gives the special of n's sign
RNorm(n, d) ==
    IF d = 0 THEN <<Sgn(n), 0>>
    ELSE LET g == Gcd(Abs(n), Abs(d))
             s == Sgn(d)
         IN  <<(s * n) \div g, (s * d) \div g>>

R(n) == <<n, 1>>

IsFinite(a) == a[2] # 0

RNeg(a) == <<-a[1], a[2]>>

RAdd(a, b) ==
    IF IsFinite(a) /\ IsFinite(b)
    THEN LET g == Gcd(a[2], b[2])
         IN  RNorm(a[1] * (b[2] \div g) + b[1] * (a[2] \div g), a[2] * (b[2] \div g))
    ELSE IF a = NaN \/ b = NaN THEN NaN
    ELSE IF IsFinite(a) THEN b
    ELSE IF IsFinite(b) THEN a
    ELSE IF a = b THEN a ELSE NaN

RSub(a, b) == RAdd(a, RNeg(b))

RMul(a, b) ==
    IF IsFinite(a) /\ IsFinite(b) THEN RNorm(a[1] * b[1], a[2] * b[2])
    ELSE IF a = NaN \/ b = NaN THEN NaN
    ELSE <<Sgn(a[1]) * Sgn(b[1]), 0>>

\* a / b; a zero divisor is +0.0 (the difference of two equal values)
RDiv(a, b) ==
    IF a = NaN \/ b = NaN THEN NaN
    ELSE IF IsFinite(b)
         THEN IF b[1] = 0
              THEN <<Sgn(a[1]), 0>>
              ELSE RMul(a, <<Sgn(b[1]) * b[2], Abs(b[1])>>)
         ELSE IF IsFinite(a) THEN R(0) ELSE NaN

\* a < b (false when either is NaN)
RLess(a, b) ==
    IF a = NaN \/ b = NaN THEN FALSE
    ELSE IF IsFinite(a) /\ IsFinite(b)
         THEN LET g == Gcd(a[2], b[2])
              IN  a[1] * (b[2] \div g) < b[1] * (a[2] \div g)
    ELSE IF IsFinite(a) THEN b[1] > 0
    ELSE IF IsFinite(b) THEN a[1] < 0
    ELSE a[1] < b[1]

RLeq(a, b) == RLess(a, b) \/ (a = b /\ a # NaN)

RAbs(a) == <<Abs(a[1]), a[2]>>

\* CMP_EPSILON of the engine's math_defs.h
CMP_EPSILON == <<1, 100000>>

\* Math::is_zero_approx
is_zero_approx(d) == RLess(RAbs(d), CMP_EPSILON)

\* Math::floor of a finite value
Floor(a) == a[1] \div a[2]

\* Math::lerp(from, to, weight) = from + (to - from) * weight
lerp(from, to, weight) == RAdd(from, RMul(RSub(to, from), weight))

\* Math::bezier_interpolate
bezier_interpolate(p_start, p_control_1, p_control_2, p_end, p_t) ==
    LET omt  == RSub(R(1), p_t)
        omt2 == RMul(omt, omt)
        omt3 == RMul(omt2, omt)
        t2   == RMul(p_t, p_t)
        t3   == RMul(t2, p_t)
    IN  RAdd(RAdd(RAdd(RMul(p_start, omt3),
                       RMul(RMul(RMul(p_control_1, omt2), p_t), R(3))),
                  RMul(RMul(RMul(p_control_2, omt), t2), R(3))),
             RMul(p_end, t3))

-----------------------------------------------------------------------------
(* Point and the point vector                                              *)

TANGENT_FREE == 0
TANGENT_LINEAR == 1
TANGENT_MODE_COUNT == 2

MIN_X == 0
MAX_X == 1

Vector2(x, y) == [x |-> x, y |-> y]

Point(p_position, p_left, p_right, p_left_mode, p_right_mode) ==
    [position |-> p_position, left_tangent |-> p_left, right_tangent |-> p_right,
     left_mode |-> p_left_mode, right_mode |-> p_right_mode]

\* Point(): Vector2() at the origin, tangents 0.0, both modes TANGENT_FREE
DefaultPoint == Point(Vector2(R(0), R(0)), R(0), R(0), TANGENT_FREE, TANGENT_FREE)

At(v, i) == v[i + 1]

\* Vector::insert(i, e)
Insert(v, i, e) == SubSeq(v, 1, i) \o <<e>> \o SubSeq(v, i + 1, Len(v))

\* Vector::remove_at(i)
RemoveAt(v, i) == SubSeq(v, 1, i) \o SubSeq(v, i + 2, Len(v))

\* v.write[i] = e
WriteAt(v, i, e) == [v EXCEPT ![i + 1] = e]

-----------------------------------------------------------------------------
(* Point store: the bodies of the mutators, as functions of the vector     *)

\* get_index_loop with the test for an offset past the last point forgotten
RECURSIVE get_index_loop_NoTail(_, _, _, _)
get_index_loop_NoTail(pts, p_offset, imin, imax) ==
    IF imax - imin > 1
    THEN LET m == (imin + imax) \div 2
             a == At(pts, m).position.x
             b == At(pts, m + 1).position.x
         IN  IF RLess(a, p_offset) /\ RLess(b, p_offset)
             THEN get_index_loop_NoTail(pts, p_offset, m, imax)
             ELSE IF RLess(p_offset, a)
                  THEN get_index_loop_NoTail(pts, p_offset, imin, m)
                  ELSE m
    ELSE imin

\* while loop and tail of get_index
RECURSIVE get_index_loop(_, _, _, _)
get_index_loop(pts, p_offset, imin, imax) ==
    IF imax - imin > 1
    THEN LET m == (imin + imax) \div 2
             a == At(pts, m).position.x
             b == At(pts, m + 1).position.x
         IN  IF RLess(a, p_offset) /\ RLess(b, p_offset)
             THEN get_index_loop(pts, p_offset, m, imax)
             ELSE IF RLess(p_offset, a)
                  THEN get_index_loop(pts, p_offset, imin, m)
                  ELSE m
    ELSE IF RLess(At(pts, imax).position.x, p_offset) THEN imax ELSE imin

\* BetterCurve::get_index on a vector of at least one point
get_index(pts, p_offset) == get_index_loop(pts, p_offset, 0, Len(pts) - 1)

\* (q - p).normalized() followed by v.y / v.x
TangentTo(p, q) ==
    RDiv(RSub(q.position.y, p.position.y), RSub(q.position.x, p.position.x))

\* update_auto_tangents_left with the previous point left as it is
update_auto_tangents_left_OwnOnly(pts, p_index) ==
    IF p_index > 0
    THEN LET p    == At(pts, p_index)
             prev == At(pts, p_index - 1)
             v    == TangentTo(p, prev)
             p1   == IF p.left_mode = TANGENT_LINEAR
                     THEN [p EXCEPT !.left_tangent = v] ELSE p
         IN  WriteAt(pts, p_index, p1)
    ELSE pts

\* first half of update_auto_tangents: the side of the previous point
update_auto_tangents_left(pts, p_index) ==
    IF p_index > 0
    THEN LET p    == At(pts, p_index)
             prev == At(pts, p_index - 1)
             v    == TangentTo(p, prev)
             p1   == IF p.left_mode = TANGENT_LINEAR
                     THEN [p EXCEPT !.left_tangent = v] ELSE p
             q1   == IF prev.right_mode = TANGENT_LINEAR
                     THEN [prev EXCEPT !.right_tangent = v] ELSE prev
         IN  WriteAt(WriteAt(pts, p_index, p1), p_index - 1, q1)
    ELSE pts

\* second half of update_auto_tangents: the side of the next point
update_auto_tangents_right(pts, p_index) ==
    IF p_index + 1 < Len(pts)
    THEN LET p    == At(pts, p_index)
             next == At(pts, p_index + 1)
             v    == TangentTo(p, next)
             p1   == IF p.right_mode = TANGENT_LINEAR
                     THEN [p EXCEPT !.right_tangent = v] ELSE p
             q1   == IF next.left_mode = TANGENT_LINEAR
                     THEN [next EXCEPT !.left_tangent = v] ELSE next
         IN  WriteAt(WriteAt(pts, p_index, p1), p_index + 1, q1)
    ELSE pts

\* BetterCurve::update_auto_tangents (p_index within the vector)
update_auto_tangents(pts, p_index) ==
    update_auto_tangents_right(update_auto_tangents_left(pts, p_index), p_index)

\* the clamp of p_position.x to MIN_X..MAX_X in _add_point
ClampX(x) ==
    IF RLess(R(MAX_X), x) THEN R(MAX_X)
    ELSE IF RLess(x, R(MIN_X)) THEN R(MIN_X) ELSE x

\* InsertIndex with the ++i of the last branch forgotten
InsertIndex_NoIncrement(pts, x) ==
    IF Len(pts) = 0 THEN 0
    ELSE IF Len(pts) = 1
         THEN IF RLess(R(0), RSub(x, At(pts, 0).position.x)) THEN 1 ELSE 0
         ELSE get_index(pts, x)

\* where _add_point puts a point of (clamped) offset x: the value of ret
InsertIndex(pts, x) ==
    IF Len(pts) = 0 THEN 0
    ELSE IF Len(pts) = 1
         THEN IF RLess(R(0), RSub(x, At(pts, 0).position.x)) THEN 1 ELSE 0
         ELSE LET i == get_index(pts, x)
              IN  IF i = 0 /\ RLess(x, At(pts, 0).position.x) THEN 0 ELSE i + 1

\* the locked block of BetterCurve::_add_point: [points, ret]
_add_point(pts, p_position, p_left_tangent, p_right_tangent, p_left_mode, p_right_mode) ==
    LET x   == ClampX(p_position.x)
        ret == InsertIndex(pts, x)
        new == Point(Vector2(x, p_position.y), p_left_tangent, p_right_tangent,
                     p_left_mode, p_right_mode)
    IN  [points |-> update_auto_tangents(Insert(pts, ret, new), ret), ret |-> ret]

\* ERR_FAIL_INDEX(p_index, size) passes
IndexOk(p_index, size) == p_index >= 0 /\ p_index < size

\* the locked block of BetterCurve::_remove_point
_remove_point(pts, p_index) ==
    IF IndexOk(p_index, Len(pts)) THEN RemoveAt(pts, p_index) ELSE pts

\* the locked block of BetterCurve::set_point_value
set_point_value(pts, p_index, p_position) ==
    IF IndexOk(p_index, Len(pts))
    THEN update_auto_tangents(
             WriteAt(pts, p_index, [At(pts, p_index) EXCEPT !.position.y = p_position]),
             p_index)
    ELSE pts

\* lines 278-281 of set_point_offset: tangents and modes of p written back at i
RestoreTangents(pts, i, p) ==
    WriteAt(pts, i, [At(pts, i) EXCEPT !.left_tangent = p.left_tangent,
                                       !.right_tangent = p.right_tangent,
                                       !.left_mode = p.left_mode,
                                       !.right_mode = p.right_mode])

\* lines 282-285 of set_point_offset
ReresolveTangents(pts, p_index, i) ==
    update_auto_tangents(
        IF p_index # i THEN update_auto_tangents(pts, p_index) ELSE pts, i)

\* BetterCurve::set_point_offset run by one thread alone: [points, ret]
set_point_offset(pts, p_index, p_offset) ==
    IF ~IndexOk(p_index, Len(pts)) THEN [points |-> pts, ret |-> -1]
    ELSE LET p == At(pts, p_index)
             a == _add_point(_remove_point(pts, p_index),
                             Vector2(p_offset, p.position.y),
                             R(0), R(0), TANGENT_FREE, TANGENT_FREE)
         IN  [points |-> ReresolveTangents(RestoreTangents(a.points, a.ret, p),
                                           p_index, a.ret),
              ret |-> a.ret]

\* the for loop of clean_dupes, from index i
RECURSIVE clean_dupes_loop(_, _)
clean_dupes_loop(pts, i) ==
    IF i < Len(pts)
    THEN LET diff == RSub(At(pts, i - 1).position.x, At(pts, i).position.x)
         IN  IF RLeq(diff, CMP_EPSILON)
             THEN clean_dupes_loop(RemoveAt(pts, i), i)
             ELSE clean_dupes_loop(pts, i + 1)
    ELSE pts

\* the locked block of BetterCurve::clean_dupes
clean_dupes(pts) == clean_dupes_loop(pts, 1)

\* Vector::resize(n): truncation, or default-constructed elements appended
Resize(v, n, e) ==
    IF n <= Len(v) THEN SubSeq(v, 1, n)
    ELSE v \o [k \in 1..(n - Len(v)) |-> e]

IsSorted(pts) ==
    \A i \in 1..(Len(pts) - 1) :
        RLeq(At(pts, i - 1).position.x, At(pts, i).position.x)

-----------------------------------------------------------------------------
(* Sampling                                                                *)

\* BetterCurve::_sample_local_nocheck
_sample_local_nocheck(p_index, p_local_offset, points) ==
    LET a == At(points, p_index)
        b == At(points, p_index + 1)
        d == RSub(b.position.x, a.position.x)
    IN  IF is_zero_approx(d) THEN b.position.y
        ELSE LET t   == RDiv(p_local_offset, d)
                 d3  == RDiv(d, R(3))
                 yac == RAdd(a.position.y, RMul(d3, a.right_tangent))
                 ybc == RSub(b.position.y, RMul(d3, b.left_tangent))
             IN  bezier_interpolate(a.position.y, yac, ybc, b.position.y, t)

\* BetterCurve::_sample
_sample(offset, points, idx) ==
    IF Len(points) = 0 THEN R(0)
    ELSE IF Len(points) = 1 THEN At(points, 0).position.y
    ELSE IF idx = Len(points) - 1 THEN At(points, idx).position.y
    ELSE LET local == RSub(offset, At(points, idx).position.x)
         IN  IF idx = 0 /\ RLeq(local, R(0)) THEN At(points, 0).position.y
             ELSE _sample_local_nocheck(idx, local, points)

\* the inner for of _update_bake: the cursor moves right while the point is left of x
RECURSIVE FindNextPoint(_, _, _)
FindNextPoint(points, x, last_point_id) ==
    IF last_point_id < Len(points) /\ RLess(At(points, last_point_id).position.x, x)
    THEN FindNextPoint(points, x, last_point_id + 1)
    ELSE last_point_id

\* Cursor without the step back of lines 663-665
Cursor_NoCorrection(points, x, last_point_id) ==
    FindNextPoint(points, x, last_point_id)

\* the cursor used for sample x, given the cursor left by the previous sample
Cursor(points, x, last_point_id) ==
    LET id == FindNextPoint(points, x, last_point_id)
    IN  IF id > 0 THEN id - 1 ELSE id

\* the outer for of _update_bake, from sample i on
RECURSIVE UpdateBakeLoop(_, _, _, _, _)
UpdateBakeLoop(points, resolution, i, last_point_id, table) ==
    IF i < resolution - 1
    THEN LET x  == RDiv(R(i), R(resolution - 1))
             id == Cursor(points, x, last_point_id)
         IN  UpdateBakeLoop(points, resolution, i + 1, id,
                            WriteAt(table, i, _sample(x, points, id)))
    ELSE table

\* WriteEnds with the write of the last entry forgotten
WriteEnds_NoLast(table, points) ==
    IF Len(points) # 0
    THEN WriteAt(table, 0, At(points, 0).position.y)
    ELSE table

\* lines 671-674 and 431-434: the two ends of the table, for a non-empty vector
WriteEnds(table, points) ==
    IF Len(points) # 0
    THEN WriteAt(WriteAt(table, 0, At(points, 0).position.y),
                 Len(table) - 1, At(points, Len(points) - 1).position.y)
    ELSE table

\* the table _update_bake computes from its snapshot; junk is the content of
\* the freshly resized (uninitialized) vector
UpdateBakeTable(points, resolution, junk) ==
    WriteEnds(UpdateBakeLoop(points, resolution, 1, 0, junk), points)

\* BetterCurve::sample_baked, as a function of the table and the points it reads
sample_baked(table, points, p_offset) ==
    IF Len(table) = 0
    THEN IF Len(points) = 0 THEN R(0) ELSE At(points, 0).position.y
    ELSE IF Len(table) = 1 THEN At(table, 0)
    ELSE LET fi0 == RMul(p_offset, R(Len(table) - 1))
             i0  == Floor(fi0)
             i   == IF i0 < 0 THEN 0
                    ELSE IF i0 >= Len(table) THEN Len(table) - 1 ELSE i0
             fi  == IF i0 < 0 \/ i0 >= Len(table) THEN R(0) ELSE fi0
         IN  IF i + 1 < Len(table)
             THEN lerp(At(table, i), At(table, i + 1), RSub(fi, R(i)))
             ELSE At(table, Len(table) - 1)

\* BetterCurve::sample
sample(table, points, p_offset) == sample_baked(table, points, p_offset)

-----------------------------------------------------------------------------
(* Bounds of the model                                                     *)

\* resolutions 1..MaxResolution are explored (the program allows 1..1000)
MaxResolution == 3

\* calls made in one behaviour, where a specification counts them
MaxCalls == 4

\* points held by the store in SpecStore
MaxPoints == 4

\* points held by the store where tables are computed
MaxBakePoints == 2

\* calls made in one behaviour of the pipeline
MaxPipelineCalls == 3

-----------------------------------------------------------------------------
(* Initial state                                                           *)

Nobody == "nobody"

\* the threads that call the public methods: one thread, the host's main
\* thread, so the unlocked statements of a call never race with another call
Callers == {"c1"}

NoCall == [op |-> "none"]

\* A curve as constructed (curvature.h:232-245), on which
\* set_bake_resolution(MaxResolution) has been called before anything else:
\* the constructed value 100 makes tables too long to enumerate.
InitOf(threads) ==
    /\ _points = <<>>
    /\ _baked_cache = <<>>
    /\ _baked_cache_dirty = TRUE
    /\ _bake_resolution = MaxResolution
    /\ _min_value = R(0)
    /\ _max_value = R(1)
    /\ _minmax_set_once = 0
    /\ _update_queued = FALSE
    /\ _update_thread = "none"
    /\ _update_queue_mutex = Nobody
    /\ _update_param_mutex = Nobody
    /\ _getter_mutex = [writer |-> Nobody, readers |-> {}]
    /\ local_points = <<>>
    /\ cache = <<>>
    /\ pc = [t \in threads |-> "idle"]
    /\ call = [t \in threads |-> NoCall]
    /\ ncalls = 0
    /\ hist = [published |-> 0, baked |-> 0, range_changed |-> 0, last |-> NoCall,
               signalled |-> 0, sleep_over |-> FALSE, late |-> FALSE,
               snapshot_torn |-> FALSE, cache_torn |-> FALSE,
               exported |-> [done |-> FALSE, data |-> <<>>, points |-> <<>>],
               unlocked_write |-> FALSE, range_set |-> {}]

Init == InitOf(Callers)

\* one more call, of at most MaxCalls
CountCall == ncalls < MaxCalls /\ ncalls' = ncalls + 1

PipelineVars ==
    <<_update_queued, _update_thread, _update_queue_mutex, _update_param_mutex,
      _getter_mutex, local_points, cache, pc, call>>

-----------------------------------------------------------------------------
(* Range manager                                                           *)

\* #define MIN_Y_RANGE 0.01
MIN_Y_RANGE == <<1, 100>>

\* _minmax_set_once & 0b11, as a C++ condition
AnySetOnce(once) == once # 0

\* once | bit, for bit = 0b10 = 2 or 0b01 = 1
BitOr(once, bit) ==
    IF (once \div bit) % 2 = 1 THEN once ELSE once + bit

\* MinClamps with the minimum span forgotten
MinClamps_NoSpan(once, p_min, max) ==
    AnySetOnce(once) /\ RLess(max, p_min)

\* the condition of the if in set_min_value
MinClamps(once, p_min, max) ==
    AnySetOnce(once) /\ RLess(RSub(max, MIN_Y_RANGE), p_min)

\* MaxClamps with the minimum span forgotten
MaxClamps_NoSpan(once, p_max, min) ==
    AnySetOnce(once) /\ RLess(p_max, min)

\* the condition of the if in set_max_value
MaxClamps(once, p_max, min) ==
    AnySetOnce(once) /\ RLess(p_max, RAdd(min, MIN_Y_RANGE))

RangeInputs == {R(0), R(1), <<999, 1000>>, <<1, 200>>, R(3), R(5)}

\* BetterCurve::set_min_value
set_min_value(p_min) ==
    /\ CountCall
    /\ IF MinClamps(_minmax_set_once, p_min, _max_value)
       THEN /\ _min_value' = RSub(_max_value, MIN_Y_RANGE)
            /\ UNCHANGED _minmax_set_once
       ELSE /\ _minmax_set_once' = BitOr(_minmax_set_once, 2)
            /\ _min_value' = p_min
    /\ hist' = [hist EXCEPT !.range_changed = @ + 1,
                            !.range_set = @ \cup {"min"},
                            !.last = [op |-> "set_min_value", arg |-> p_min,
                                      once |-> _minmax_set_once,
                                      min |-> _min_value, max |-> _max_value]]
    /\ UNCHANGED <<_points, _baked_cache, _baked_cache_dirty, _bake_resolution,
                   _max_value, PipelineVars>>

\* BetterCurve::set_max_value
set_max_value(p_max) ==
    /\ CountCall
    /\ IF MaxClamps(_minmax_set_once, p_max, _min_value)
       THEN /\ _max_value' = RAdd(_min_value, MIN_Y_RANGE)
            /\ UNCHANGED _minmax_set_once
       ELSE /\ _minmax_set_once' = BitOr(_minmax_set_once, 1)
            /\ _max_value' = p_max
    /\ hist' = [hist EXCEPT !.range_changed = @ + 1,
                            !.range_set = @ \cup {"max"},
                            !.last = [op |-> "set_max_value", arg |-> p_max,
                                      once |-> _minmax_set_once,
                                      min |-> _min_value, max |-> _max_value]]
    /\ UNCHANGED <<_points, _baked_cache, _baked_cache_dirty, _bake_resolution,
                   _min_value, PipelineVars>>

SetMin == \E v \in RangeInputs : set_min_value(v)

SetMax == \E v \in RangeInputs : set_max_value(v)

NextRange == SetMin \/ SetMax

\* the range manager under any sequence of set_min_value / set_max_value calls
SpecRange == Init /\ [][NextRange]_vars

-----------------------------------------------------------------------------
(* Whole calls made by one caller thread.  The background thread runs      *)
(* between the calls, from its first statement to its last (UpdateBakeRun),*)
(* or is not scheduled at all (SpecStore).                                 *)

\* BetterCurve::_queue_update when the thread is not between its first
\* statement and its last: a finished thread is joined at once, and a thread
\* is started unless one is still queued.  emit_changed() notifies the host
\* and leaves the curve as it is.
QueueUpdateCall ==
    /\ _update_thread \in {"none", "started", "exited"}
    /\ _update_queue_mutex = Nobody
    /\ _update_queued' = TRUE
    /\ _update_thread' = "started"
    /\ UNCHANGED _update_queue_mutex

\* NoQueueUpdate with _queue_update called all the same
NoQueueUpdate_Queued == QueueUpdateCall

NoQueueUpdate == UNCHANGED <<_update_queued, _update_thread, _update_queue_mutex>>

StoreFrame ==
    UNCHANGED <<_baked_cache, _baked_cache_dirty, _bake_resolution, _min_value,
                _max_value, _minmax_set_once, _update_param_mutex, _getter_mutex,
                local_points, cache, pc, call>>

\* BetterCurve::add_point with the default tangents and modes
add_point(p_position) ==
    LET a == _add_point(_points, p_position, R(0), R(0), TANGENT_FREE, TANGENT_FREE)
    IN  /\ _update_param_mutex = Nobody
        /\ _points' = a.points
        /\ QueueUpdateCall
        /\ hist' = [hist EXCEPT !.last = [op |-> "add_point", position |-> p_position,
                                          ret |-> a.ret]]
        /\ StoreFrame

\* BetterCurve::set_point_offset, both _queue_update calls included
SetPointOffsetCall(p_index, p_offset) ==
    LET a == set_point_offset(_points, p_index, p_offset)
    IN  /\ _update_param_mutex = Nobody
        /\ _points' = a.points
        /\ IF a.ret = -1 THEN NoQueueUpdate ELSE QueueUpdateCall
        /\ hist' = [hist EXCEPT !.last =
                        [op |-> "set_point_offset", index |-> p_index,
                         position |-> IF a.ret = -1 THEN Vector2(p_offset, R(0))
                                      ELSE Vector2(p_offset, At(_points, p_index).position.y),
                         ret |-> a.ret]]
        /\ StoreFrame

\* BetterCurve::set_point_value
SetPointValueCall(p_index, p_position) ==
    /\ _update_param_mutex = Nobody
    /\ _points' = set_point_value(_points, p_index, p_position)
    /\ IF IndexOk(p_index, Len(_points)) THEN QueueUpdateCall ELSE NoQueueUpdate
    /\ hist' = [hist EXCEPT !.last = [op |-> "set_point_value", index |-> p_index,
                                      y |-> p_position]]
    /\ StoreFrame

\* BetterCurve::clean_dupes
CleanDupesCall ==
    /\ _update_param_mutex = Nobody
    /\ _points' = clean_dupes(_points)
    /\ IF _points' # _points THEN QueueUpdateCall ELSE NoQueueUpdate
    /\ hist' = [hist EXCEPT !.last = [op |-> "clean_dupes", before |-> _points]]
    /\ StoreFrame

\* offsets given by the caller: outside 0..1, and two less than CMP_EPSILON apart
XInputs == {<<-1, 2>>, R(0), <<1, 200000>>, R(1), <<3, 2>>}

YInputs == {R(0), R(1)}

TangentInputs == {R(0), R(1)}

AddPoint ==
    /\ Len(_points) < MaxPoints
    /\ \E x \in XInputs, y \in YInputs : add_point(Vector2(x, y))
    /\ UNCHANGED ncalls

SetPointOffset ==
    /\ \E i \in -1..Len(_points), x \in XInputs : SetPointOffsetCall(i, x)
    /\ UNCHANGED ncalls

CleanDupes == CleanDupesCall /\ UNCHANGED ncalls

NextStore == AddPoint \/ SetPointOffset \/ CleanDupes

\* the point store under any sequence of calls of one thread
SpecStore == Init /\ [][NextStore]_vars

-----------------------------------------------------------------------------
(* The table: the background thread's whole run, bake(), and the calls     *)
(* that make the table stale, made by one caller thread.                   *)

\* what a freshly resized Vector<real_t> may hold
Uninitialized == {R(0), R(9)}

\* the contents a fresh vector of n entries may have where they can be read
\* afterwards: every entry is overwritten when the points are not empty and
\* the table is built by _update_bake
FreshCache(n, read) ==
    IF read THEN [1..n -> Uninitialized] ELSE {[k \in 1..n |-> R(0)]}

\* BetterCurve::_update_bake from its first statement to its last, with no
\* call in between: one pass of each loop, one table, one "baked" signal
UpdateBakeRun ==
    /\ _update_thread = "started"
    /\ _update_queued
    /\ _update_queue_mutex = Nobody
    /\ _update_param_mutex = Nobody
    /\ _getter_mutex = [writer |-> Nobody, readers |-> {}]
    /\ \E junk \in FreshCache(_bake_resolution, Len(_points) = 0) :
           _baked_cache' = UpdateBakeTable(_points, _bake_resolution, junk)
    /\ _update_queued' = FALSE
    /\ _update_thread' = "exited"
    /\ hist' = [hist EXCEPT !.published = @ + 1, !.baked = @ + 1]
    /\ UNCHANGED <<_points, _baked_cache_dirty, _bake_resolution, _min_value,
                   _max_value, _minmax_set_once, _update_queue_mutex,
                   _update_param_mutex, _getter_mutex, local_points, cache, pc,
                   call, ncalls>>

\* the for loop of bake(): entry i is sample(x), which reads the cache being rebuilt
RECURSIVE BakeLoop(_, _, _, _)
BakeLoop(table, points, resolution, i) ==
    IF i < resolution - 1
    THEN LET x == RDiv(R(i), R(resolution - 1))
         IN  BakeLoop(WriteAt(table, i, sample(table, points, x)), points,
                      resolution, i + 1)
    ELSE table

\* BetterCurve::bake
Bake ==
    /\ CountCall
    /\ \E junk \in FreshCache(_bake_resolution, TRUE) :
           _baked_cache' = WriteEnds(BakeLoop(junk, _points, _bake_resolution, 1),
                                     _points)
    /\ _baked_cache_dirty' = FALSE
    /\ hist' = [hist EXCEPT !.last = [op |-> "bake"]]
    /\ UNCHANGED <<_points, _bake_resolution, _min_value, _max_value,
                   _minmax_set_once, PipelineVars>>

\* BetterCurve::set_bake_resolution
set_bake_resolution(p_resolution) ==
    /\ CountCall
    /\ IF p_resolution < 1 \/ p_resolution > 1000
       THEN UNCHANGED <<_bake_resolution, _baked_cache_dirty>>
       ELSE /\ _bake_resolution' = p_resolution
            /\ _baked_cache_dirty' = TRUE
    /\ hist' = [hist EXCEPT !.last = [op |-> "set_bake_resolution",
                                      resolution |-> p_resolution]]
    /\ UNCHANGED <<_points, _baked_cache, _min_value, _max_value,
                   _minmax_set_once, PipelineVars>>

\* BetterCurve::clear_points
ClearPointsCall ==
    /\ _update_param_mutex = Nobody
    /\ _points' = <<>>
    /\ IF Len(_points) = 0 THEN NoQueueUpdate ELSE QueueUpdateCall
    /\ hist' = [hist EXCEPT !.last = [op |-> "clear_points"]]
    /\ StoreFrame

\* offsets of the points where tables are computed
BakeXInputs == {R(0), <<1, 2>>, R(1)}

ResolutionInputs == {0, 1001} \cup 1..MaxResolution

AddPointBake ==
    /\ Len(_points) < MaxBakePoints
    /\ CountCall
    /\ \E x \in BakeXInputs, y \in YInputs : add_point(Vector2(x, y))

SetPointValueBake ==
    /\ CountCall
    /\ \E i \in 0..(Len(_points) - 1), y \in YInputs : SetPointValueCall(i, y)

ClearPointsBake == CountCall /\ ClearPointsCall

SetBakeResolution == \E r \in ResolutionInputs : set_bake_resolution(r)

NextBake ==
    \/ AddPointBake
    \/ SetPointValueBake
    \/ ClearPointsBake
    \/ SetBakeResolution
    \/ Bake
    \/ UpdateBakeRun

\* edits, bake() and whole runs of the background thread, one after another
SpecBake == Init /\ [][NextBake]_vars

-----------------------------------------------------------------------------
(* The index-addressed setters, as whole calls of one caller thread        *)

\* the locked block of BetterCurve::set_point_left_tangent
set_point_left_tangent(pts, p_index, p_tangent) ==
    IF IndexOk(p_index, Len(pts))
    THEN WriteAt(pts, p_index, [At(pts, p_index) EXCEPT !.left_tangent = p_tangent,
                                                        !.left_mode = TANGENT_FREE])
    ELSE pts

\* the locked block of BetterCurve::set_point_right_tangent
set_point_right_tangent(pts, p_index, p_tangent) ==
    IF IndexOk(p_index, Len(pts))
    THEN WriteAt(pts, p_index, [At(pts, p_index) EXCEPT !.right_tangent = p_tangent,
                                                        !.right_mode = TANGENT_FREE])
    ELSE pts

\* the locked block of BetterCurve::set_point_left_mode
set_point_left_mode(pts, p_index, p_mode) ==
    IF IndexOk(p_index, Len(pts))
    THEN LET p == [At(pts, p_index) EXCEPT !.left_mode = p_mode]
         IN  WriteAt(pts, p_index,
                     IF p_index > 0 /\ p_mode = TANGENT_LINEAR
                     THEN [p EXCEPT !.left_tangent = TangentTo(p, At(pts, p_index - 1))]
                     ELSE p)
    ELSE pts

\* the locked block of BetterCurve::set_point_right_mode
set_point_right_mode(pts, p_index, p_mode) ==
    IF IndexOk(p_index, Len(pts))
    THEN LET p == [At(pts, p_index) EXCEPT !.right_mode = p_mode]
         IN  WriteAt(pts, p_index,
                     IF p_index + 1 < Len(pts) /\ p_mode = TANGENT_LINEAR
                     THEN [p EXCEPT !.right_tangent = TangentTo(p, At(pts, p_index + 1))]
                     ELSE p)
    ELSE pts

\* a call of an index-addressed setter: the locked block, and _queue_update
\* unless ERR_FAIL_INDEX has returned from the method
IndexedCall(op, p_index, arg, points) ==
    /\ _update_param_mutex = Nobody
    /\ _points' = points
    /\ IF IndexOk(p_index, Len(_points)) THEN QueueUpdateCall ELSE NoQueueUpdate
    /\ hist' = [hist EXCEPT !.last = [op |-> op, index |-> p_index, arg |-> arg]]
    /\ StoreFrame

\* BetterCurve::remove_point
RemovePointCall(p_index) ==
    IndexedCall("remove_point", p_index, 0, _remove_point(_points, p_index))

\* BetterCurve::set_point_left_tangent
SetPointLeftTangentCall(p_index, p_tangent) ==
    IndexedCall("set_point_left_tangent", p_index, p_tangent,
                set_point_left_tangent(_points, p_index, p_tangent))

\* BetterCurve::set_point_right_tangent
SetPointRightTangentCall(p_index, p_tangent) ==
    IndexedCall("set_point_right_tangent", p_index, p_tangent,
                set_point_right_tangent(_points, p_index, p_tangent))

\* BetterCurve::set_point_left_mode
SetPointLeftModeCall(p_index, p_mode) ==
    IndexedCall("set_point_left_mode", p_index, p_mode,
                set_point_left_mode(_points, p_index, p_mode))

\* BetterCurve::set_point_right_mode
SetPointRightModeCall(p_index, p_mode) ==
    IndexedCall("set_point_right_mode", p_index, p_mode,
                set_point_right_mode(_points, p_index, p_mode))

\* BetterCurve::set_point_count with a count that is not above the size of
\* the store (a call with a larger count does not return, see
\* SetPointCountRelock)
SetPointCountCall(p_count) ==
    /\ p_count <= Len(_points)
    /\ _update_param_mutex = Nobody
    /\ IF p_count < 0 \/ p_count = Len(_points)
       THEN UNCHANGED _points /\ NoQueueUpdate
       ELSE _points' = Resize(_points, p_count, DefaultPoint) /\ QueueUpdateCall
    /\ hist' = [hist EXCEPT !.last = [op |-> "set_point_count", count |-> p_count]]
    /\ StoreFrame

\* points held by the store where the setters are called
MaxSetterPoints == 2

\* calls made in one behaviour of the setters, valid and invalid
MaxSetterCalls == 3

\* calls made in one behaviour of the tangent modes
MaxTangentCalls == 5

SetterXInputs == {R(0), R(1)}

ModeInputs == {TANGENT_FREE, TANGENT_LINEAR}

\* indices given by the caller: one below and one above the valid ones
IndexInputs == -1..Len(_points)

\* one more call, of at most max
CountCallOf(max) == ncalls < max /\ ncalls' = ncalls + 1

AddPointOf(max) ==
    /\ CountCallOf(max)
    /\ Len(_points) < MaxSetterPoints
    /\ \E x \in SetterXInputs, y \in YInputs : add_point(Vector2(x, y))

RemovePointOf(max) ==
    /\ CountCallOf(max)
    /\ \E i \in IndexInputs : RemovePointCall(i)

SetPointValueOf(max) ==
    /\ CountCallOf(max)
    /\ \E i \in IndexInputs, y \in YInputs : SetPointValueCall(i, y)

SetPointOffsetOf(max) ==
    /\ CountCallOf(max)
    /\ \E i \in IndexInputs, x \in SetterXInputs : SetPointOffsetCall(i, x)

SetPointTangentOf(max) ==
    /\ CountCallOf(max)
    /\ \E i \in IndexInputs, t \in TangentInputs :
           SetPointLeftTangentCall(i, t) \/ SetPointRightTangentCall(i, t)

SetPointModeOf(max) ==
    /\ CountCallOf(max)
    /\ \E i \in IndexInputs, m \in ModeInputs :
           SetPointLeftModeCall(i, m) \/ SetPointRightModeCall(i, m)

SetPointCountOf(max) ==
    /\ CountCallOf(max)
    /\ \E n \in -1..Len(_points) : SetPointCountCall(n)

SetBakeResolutionOf(max) == ncalls < max /\ SetBakeResolution

NextSetters ==
    \/ AddPointOf(MaxSetterCalls)
    \/ RemovePointOf(MaxSetterCalls)
    \/ SetPointValueOf(MaxSetterCalls)
    \/ SetPointOffsetOf(MaxSetterCalls)
    \/ SetPointTangentOf(MaxSetterCalls)
    \/ SetPointModeOf(MaxSetterCalls)
    \/ SetPointCountOf(MaxSetterCalls)
    \/ SetBakeResolutionOf(MaxSetterCalls)
    \/ UpdateBakeRun

\* the setters, valid and invalid, and whole runs of the background thread
SpecSetters == Init /\ [][NextSetters]_vars

\* offsets of the points whose tangents are resolved
TangentXInputs == {R(0), <<1, 2>>, R(1)}

AddPointTangents ==
    /\ CountCallOf(MaxTangentCalls)
    /\ Len(_points) < MaxSetterPoints
    /\ \E x \in TangentXInputs, y \in YInputs : add_point(Vector2(x, y))

SetPointOffsetTangents ==
    /\ CountCallOf(MaxTangentCalls)
    /\ \E i \in IndexInputs, x \in TangentXInputs : SetPointOffsetCall(i, x)

NextTangents ==
    \/ AddPointTangents
    \/ SetPointModeOf(MaxTangentCalls)
    \/ SetPointValueOf(MaxTangentCalls)
    \/ SetPointOffsetTangents

\* points added, given tangent modes and moved
SpecTangents == Init /\ [][NextTangents]_vars

-----------------------------------------------------------------------------
(* Bulk export and import: get_data and set_data on Arrays of Variants     *)

\* const unsigned int ELEMS = 5
ELEMS == 5

\* Variants, by type
VVector2(v) == [type |-> "VECTOR2", value |-> v]

VFloat(r) == [type |-> "FLOAT", value |-> r]

VInt(n) == [type |-> "INT", value |-> n]

VNil == [type |-> "NIL", value |-> 0]

\* Variant::is_num
is_num(v) == v.type \in {"INT", "FLOAT"}

\* the conversion of a numeric Variant to real_t
ToReal(v) == IF v.type = "INT" THEN R(v.value) ELSE v.value

\* get_data with the two tangents written in each other's place
get_data_Swapped(pts) ==
    [k \in 1..(Len(pts) * ELEMS) |->
        LET p == At(pts, (k - 1) \div ELEMS)
            f == (k - 1) % ELEMS
        IN  CASE f = 0 -> VVector2(p.position)
              [] f = 1 -> VFloat(p.right_tangent)
              [] f = 2 -> VFloat(p.left_tangent)
              [] f = 3 -> VInt(p.left_mode)
              [] f = 4 -> VInt(p.right_mode)]

\* BetterCurve::get_data
get_data(pts) ==
    [k \in 1..(Len(pts) * ELEMS) |->
        LET p == At(pts, (k - 1) \div ELEMS)
            f == (k - 1) % ELEMS
        IN  CASE f = 0 -> VVector2(p.position)
              [] f = 1 -> VFloat(p.left_tangent)
              [] f = 2 -> VFloat(p.right_tangent)
              [] f = 3 -> VInt(p.left_mode)
              [] f = 4 -> VInt(p.right_mode)]

\* the ERR_FAIL_CONDs of one pass of the validation loop of set_data all pass
TupleValid(p_input, i) ==
    /\ At(p_input, i).type = "VECTOR2"
    /\ is_num(At(p_input, i + 1))
    /\ At(p_input, i + 2).type = "FLOAT"
    /\ At(p_input, i + 3).type = "INT"
    /\ ~(At(p_input, i + 3).value < 0 \/ At(p_input, i + 3).value >= TANGENT_MODE_COUNT)
    /\ At(p_input, i + 4).type = "INT"
    /\ ~(At(p_input, i + 4).value < 0 \/ At(p_input, i + 4).value >= TANGENT_MODE_COUNT)

\* DataValid with the validation loop left after its first pass
DataValid_FirstTuple(p_input) ==
    /\ Len(p_input) % ELEMS = 0
    /\ Len(p_input) > 0 => TupleValid(p_input, 0)

\* set_data reaches the end of its validation
DataValid(p_input) ==
    /\ Len(p_input) % ELEMS = 0
    /\ \A j \in 0..(Len(p_input) \div ELEMS - 1) : TupleValid(p_input, j * ELEMS)

\* the locked block of BetterCurve::set_data
set_data(pts, p_input) ==
    IF ~DataValid(p_input) THEN pts
    ELSE LET new_size == Len(p_input) \div ELEMS
             resized  == IF Len(pts) # new_size
                         THEN Resize(pts, new_size, DefaultPoint) ELSE pts
         IN  [j1 \in 1..Len(resized) |->
                 LET i == (j1 - 1) * ELEMS
                 IN  [resized[j1] EXCEPT
                         !.position = At(p_input, i).value,
                         !.left_tangent = ToReal(At(p_input, i + 1)),
                         !.right_tangent = ToReal(At(p_input, i + 2)),
                         !.left_mode = At(p_input, i + 3).value,
                         !.right_mode = At(p_input, i + 4).value]]

\* BetterCurve::set_data
SetDataCall(p_input) ==
    /\ _update_param_mutex = Nobody
    /\ _points' = set_data(_points, p_input)
    /\ IF DataValid(p_input) THEN QueueUpdateCall ELSE NoQueueUpdate
    /\ hist' = [hist EXCEPT !.last = [op |-> "set_data", input |-> p_input,
                                      before |-> _points]]
    /\ StoreFrame

\* BetterCurve::get_data; the caller keeps the Array
GetDataCall ==
    /\ hist' = [hist EXCEPT !.last = [op |-> "get_data"],
                            !.exported = [done |-> TRUE, data |-> get_data(_points),
                                          points |-> _points]]
    /\ UNCHANGED <<_points, _baked_cache, _baked_cache_dirty, _bake_resolution,
                   _min_value, _max_value, _minmax_set_once, PipelineVars>>

\* tuples imported at once
MaxDataPoints == 2

\* tuples that pass the validation; the first tangent of the second is an integer
GoodTuples ==
    {<<VVector2(Vector2(R(0), R(0))), VFloat(R(0)), VFloat(R(1)),
       VInt(TANGENT_FREE), VInt(TANGENT_LINEAR)>>,
     <<VVector2(Vector2(R(1), R(1))), VInt(1), VFloat(R(0)),
       VInt(TANGENT_LINEAR), VInt(TANGENT_FREE)>>}

\* the Array made of the tuples ts
Flatten(ts) ==
    [k \in 1..(Len(ts) * ELEMS) |-> ts[((k - 1) \div ELEMS) + 1][((k - 1) % ELEMS) + 1]]

ValidArrays ==
    {Flatten(ts) : ts \in UNION {[1..n -> GoodTuples] : n \in 0..MaxDataPoints}}

\* Variants that field f of a tuple must not be
BadVariants(f) ==
    CASE f = 1 -> {VFloat(R(0))}
      [] f = 2 -> {VNil}
      [] f = 3 -> {VNil, VInt(1)}
      [] f = 4 -> {VInt(TANGENT_MODE_COUNT), VFloat(R(0))}
      [] f = 5 -> {VInt(-1), VNil}

\* a valid Array of MaxDataPoints tuples with one field of its last tuple
\* spoilt, or any valid Array without its last element
SpoiltArrays ==
    UNION {UNION {{[a EXCEPT ![Len(a) - ELEMS + f] = b] : b \in BadVariants(f)} :
                     f \in 1..ELEMS} :
           a \in {v \in ValidArrays : Len(v) = MaxDataPoints * ELEMS}}
    \cup {SubSeq(a, 1, Len(a) - 1) : a \in ValidArrays \ {<<>>}}

DataInputs == ValidArrays \cup SpoiltArrays

SetData ==
    /\ \E p_input \in DataInputs \cup {hist.exported.data} : SetDataCall(p_input)
    /\ UNCHANGED ncalls

GetData == GetDataCall /\ UNCHANGED ncalls

NextData == SetData \/ GetData

SpecData == Init /\ [][NextData]_vars

-----------------------------------------------------------------------------
(* get_index on the stores that add_point builds                           *)

\* points held by the store where get_index is called
MaxLocatePoints == 4

\* offsets of the points and of the calls
LocateXInputs == {R(0), <<1, 4>>, <<1, 2>>, <<3, 4>>, R(1)}

AddPointLocate ==
    /\ Len(_points) < MaxLocatePoints
    /\ \E x \in LocateXInputs : add_point(Vector2(x, R(0)))
    /\ UNCHANGED ncalls

\* BetterCurve::get_index called on a store that is not empty
GetIndex ==
    /\ Len(_points) > 0
    /\ \E x \in LocateXInputs :
           hist' = [hist EXCEPT !.last = [op |-> "get_index", p_offset |-> x,
                                          ret |-> get_index(_points, x)]]
    /\ UNCHANGED <<_points, _baked_cache, _baked_cache_dirty, _bake_resolution,
                   _min_value, _max_value, _minmax_set_once, PipelineVars, ncalls>>

NextLocate == AddPointLocate \/ GetIndex

SpecLocate == Init /\ [][NextLocate]_vars

-----------------------------------------------------------------------------
(* The pipeline, statement by statement: a caller thread inside an edit    *)
(* and the background thread inside _update_bake take their steps in any   *)
(* order.  A block guarded by a std::unique_lock is one step, taken when   *)
(* the mutex is free; a step that waits (a lock held by another thread, a  *)
(* join of a running thread) is a step that is not enabled.                *)

\* offsets given by the caller
PipeXInputs == {R(0), R(1)}

\* the process has been ended by std::terminate
Terminated == \E t \in Callers : pc[t] = "terminated"

\* a caller thread enters a public method
Begin(t) ==
    /\ ~Terminated
    /\ pc[t] = "idle"
    /\ ncalls < MaxPipelineCalls
    /\ ncalls' = ncalls + 1

Jump(t, to, c) ==
    /\ pc' = [pc EXCEPT ![t] = to]
    /\ call' = [call EXCEPT ![t] = c]

\* the public method returns
Return(t) == Jump(t, "idle", NoCall)

\* what no caller thread writes
CallerFrame ==
    UNCHANGED <<_baked_cache, _baked_cache_dirty, _bake_resolution, _min_value,
                _max_value, _minmax_set_once, _getter_mutex, local_points, cache>>

QueueFrame == UNCHANGED <<_update_queued, _update_thread, _update_queue_mutex>>

\* BetterCurve::add_point up to the end of the locked block of _add_point
AddPointLocked(t, p_position, p_right_tangent) ==
    /\ Begin(t)
    /\ Len(_points) < MaxBakePoints
    /\ _update_param_mutex = Nobody
    /\ _points' = _add_point(_points, p_position, R(0), p_right_tangent,
                             TANGENT_FREE, TANGENT_FREE).points
    /\ Jump(t, "_queue_update", [op |-> "add_point", next |-> "return"])
    /\ UNCHANGED <<_update_param_mutex, hist>>
    /\ QueueFrame /\ CallerFrame

\* BetterCurve::remove_point up to the end of the locked block of _remove_point
RemovePointLocked(t, p_index) ==
    /\ Begin(t)
    /\ _update_param_mutex = Nobody
    /\ _points' = _remove_point(_points, p_index)
    /\ IF IndexOk(p_index, Len(_points))
       THEN Jump(t, "_queue_update", [op |-> "remove_point", next |-> "return"])
       ELSE Return(t)
    /\ UNCHANGED <<_update_param_mutex, hist>>
    /\ QueueFrame /\ CallerFrame

\* BetterCurve::set_point_value up to the end of its locked block
SetPointValueLocked(t, p_index, p_position) ==
    /\ Begin(t)
    /\ _update_param_mutex = Nobody
    /\ _points' = set_point_value(_points, p_index, p_position)
    /\ IF IndexOk(p_index, Len(_points))
       THEN Jump(t, "_queue_update", [op |-> "set_point_value", next |-> "return"])
       ELSE Return(t)
    /\ UNCHANGED <<_update_param_mutex, hist>>
    /\ QueueFrame /\ CallerFrame

\* BetterCurve::set_point_count, lines 21-25
SetPointCountBegin(t, p_count) ==
    /\ Begin(t)
    /\ IF p_count < 0 \/ Len(_points) = p_count
       THEN Return(t)
       ELSE Jump(t, "set_point_count_lock",
                 [op |-> "set_point_count", next |-> "return",
                  p_count |-> p_count, old_size |-> Len(_points),
                  before |-> _points])
    /\ UNCHANGED <<_points, _update_param_mutex, hist>>
    /\ QueueFrame /\ CallerFrame

\* BetterCurve::set_point_count, lines 28-31: the lock is taken; the shrinking
\* branch resizes and leaves the block, the growing branch stays in it
SetPointCountLock(t) ==
    /\ ~Terminated
    /\ pc[t] = "set_point_count_lock"
    /\ _update_param_mutex = Nobody
    /\ IF call[t].old_size > call[t].p_count
       THEN /\ _points' = Resize(_points, call[t].p_count, DefaultPoint)
            /\ pc' = [pc EXCEPT ![t] = "_queue_update"]
            /\ UNCHANGED _update_param_mutex
       ELSE /\ _update_param_mutex' = t
            /\ pc' = [pc EXCEPT ![t] = "set_point_count_add"]
            /\ UNCHANGED _points
    /\ UNCHANGED <<call, ncalls, hist>>
    /\ QueueFrame /\ CallerFrame

\* what locking a std::mutex the thread already owns may do
RelockOutcomes == {"deadlocked", "terminated"}

\* BetterCurve::set_point_count, line 33: _add_point locks _update_param_mutex,
\* which this thread holds.  The behaviour is undefined: the thread blocks for
\* ever with the mutex held, or std::system_error is thrown and ends the process.
SetPointCountRelock(t) ==
    /\ ~Terminated
    /\ pc[t] = "set_point_count_add"
    /\ _update_param_mutex = t
    /\ \E outcome \in RelockOutcomes : pc' = [pc EXCEPT ![t] = outcome]
    /\ UNCHANGED <<_points, _update_param_mutex, call, ncalls, hist>>
    /\ QueueFrame /\ CallerFrame

\* BetterCurve::set_point_offset, lines 274-275, read without the lock
SetPointOffsetBegin(t, p_index, p_offset) ==
    /\ Begin(t)
    /\ IF IndexOk(p_index, Len(_points))
       THEN Jump(t, "_remove_point",
                 [op |-> "set_point_offset", next |-> "_add_point",
                  p_index |-> p_index, p_offset |-> p_offset,
                  p |-> At(_points, p_index), i |-> -1,
                  before |-> _points,
                  after |-> set_point_offset(_points, p_index, p_offset).points])
       ELSE Return(t)
    /\ UNCHANGED <<_points, _update_param_mutex, hist>>
    /\ QueueFrame /\ CallerFrame

\* set_point_offset, line 276: the locked block of _remove_point
SetPointOffsetRemove(t) ==
    /\ ~Terminated
    /\ pc[t] = "_remove_point"
    /\ _update_param_mutex = Nobody
    /\ _points' = _remove_point(_points, call[t].p_index)
    /\ pc' = [pc EXCEPT ![t] = IF IndexOk(call[t].p_index, Len(_points))
                               THEN "_queue_update" ELSE "_add_point"]
    /\ UNCHANGED <<_update_param_mutex, call, ncalls, hist>>
    /\ QueueFrame /\ CallerFrame

\* set_point_offset, line 277: the locked block of _add_point
SetPointOffsetAdd(t) ==
    LET a == _add_point(_points, Vector2(call[t].p_offset, call[t].p.position.y),
                        R(0), R(0), TANGENT_FREE, TANGENT_FREE)
    IN  /\ ~Terminated
        /\ pc[t] = "_add_point"
        /\ _update_param_mutex = Nobody
        /\ _points' = a.points
        /\ Jump(t, "_queue_update", [call[t] EXCEPT !.i = a.ret, !.next = "restore"])
        /\ UNCHANGED <<_update_param_mutex, ncalls, hist>>
        /\ QueueFrame /\ CallerFrame

\* set_point_offset, lines 278-281, written without the lock; writing past the
\* end of the vector ends the process (CRASH_BAD_INDEX)
SetPointOffsetRestore(t) ==
    /\ ~Terminated
    /\ pc[t] = "restore"
    /\ IF IndexOk(call[t].i, Len(_points))
       THEN /\ _points' = RestoreTangents(_points, call[t].i, call[t].p)
            /\ pc' = [pc EXCEPT ![t] = "resolve"]
            /\ hist' = [hist EXCEPT !.unlocked_write = @ \/ _update_param_mutex # t]
       ELSE /\ pc' = [pc EXCEPT ![t] = "terminated"]
            /\ UNCHANGED <<_points, hist>>
    /\ UNCHANGED <<_update_param_mutex, call, ncalls>>
    /\ QueueFrame /\ CallerFrame

\* set_point_offset, lines 282-286, written without the lock
SetPointOffsetResolve(t) ==
    /\ ~Terminated
    /\ pc[t] = "resolve"
    /\ _points' = ReresolveTangents(_points, call[t].p_index, call[t].i)
    /\ hist' = [hist EXCEPT !.unlocked_write = @ \/ _update_param_mutex # t]
    /\ Return(t)
    /\ UNCHANGED <<_update_param_mutex, ncalls>>
    /\ QueueFrame /\ CallerFrame

\* _queue_update returns to the method that called it
Continue(t) ==
    IF call[t].next = "return" THEN Return(t)
    ELSE pc' = [pc EXCEPT ![t] = call[t].next] /\ UNCHANGED call

\* std::thread::joinable: a thread has been started and not joined
Joinable == _update_thread # "none"

\* QueueUpdateLock with every joinable thread joined, queued or not
QueueUpdateLock_JoinQueued(t) ==
    /\ ~Terminated
    /\ pc[t] = "_queue_update"
    /\ _update_queue_mutex = Nobody
    /\ hist' = [hist EXCEPT !.signalled = @ + 1, !.late = @ \/ hist.sleep_over]
    /\ IF Joinable
       THEN /\ _update_queue_mutex' = t
            /\ pc' = [pc EXCEPT ![t] = "join"]
            /\ UNCHANGED <<_update_queued, _update_thread, call>>
       ELSE /\ _update_queued' = TRUE
            /\ _update_thread' = "started"
            /\ Continue(t)
            /\ UNCHANGED _update_queue_mutex
    /\ UNCHANGED <<_points, _update_param_mutex, ncalls>>
    /\ CallerFrame

\* BetterCurve::_queue_update, lines 614-617: the queue mutex is taken; a
\* thread that has cleared _update_queued is joined with the mutex held, a
\* thread still queued is left alone, and with no thread one is started
QueueUpdateLock(t) ==
    /\ ~Terminated
    /\ pc[t] = "_queue_update"
    /\ _update_queue_mutex = Nobody
    /\ hist' = [hist EXCEPT !.signalled = @ + 1, !.late = @ \/ hist.sleep_over]
    /\ IF Joinable /\ ~_update_queued
       THEN /\ _update_queue_mutex' = t
            /\ pc' = [pc EXCEPT ![t] = "join"]
            /\ UNCHANGED <<_update_queued, _update_thread, call>>
       ELSE IF Joinable
       THEN /\ Continue(t)
            /\ UNCHANGED <<_update_queued, _update_thread, _update_queue_mutex>>
       ELSE /\ _update_queued' = TRUE
            /\ _update_thread' = "started"
            /\ Continue(t)
            /\ UNCHANGED _update_queue_mutex
    /\ UNCHANGED <<_points, _update_param_mutex, ncalls>>
    /\ CallerFrame

\* QueueUpdateJoin with a join that does not wait for the thread function
QueueUpdateJoin_NoWait(t) ==
    /\ ~Terminated
    /\ pc[t] = "join"
    /\ _update_queued' = TRUE
    /\ _update_thread' = "started"
    /\ _update_queue_mutex' = Nobody
    /\ Continue(t)
    /\ UNCHANGED <<_points, _update_param_mutex, ncalls, hist>>
    /\ CallerFrame

\* BetterCurve::_queue_update, lines 618-627: join returns when the thread
\* function has returned; a new thread is started and the mutex released
QueueUpdateJoin(t) ==
    /\ ~Terminated
    /\ pc[t] = "join"
    /\ _update_thread = "exited"
    /\ _update_queued' = TRUE
    /\ _update_thread' = "started"
    /\ _update_queue_mutex' = Nobody
    /\ Continue(t)
    /\ UNCHANGED <<_points, _update_param_mutex, ncalls, hist>>
    /\ CallerFrame

\* what the background thread does not write
WorkerFrame ==
    UNCHANGED <<_points, _baked_cache_dirty, _bake_resolution, _min_value,
                _max_value, _minmax_set_once, _update_param_mutex, pc, call, ncalls>>

\* _update_bake, line 636: the condition of the outer while
UpdateBakeWhile ==
    /\ ~Terminated
    /\ _update_thread = "started"
    /\ _update_thread' = IF _update_queued THEN "clear" ELSE "emit"
    /\ UNCHANGED <<_baked_cache, _update_queued, _update_queue_mutex, _getter_mutex,
                   local_points, cache, hist>>
    /\ WorkerFrame

\* _update_bake, lines 638-640
UpdateBakeClear ==
    /\ ~Terminated
    /\ _update_thread = "clear"
    /\ _update_queue_mutex = Nobody
    /\ _update_queued' = FALSE
    /\ _update_thread' = "sleeping"
    /\ UNCHANGED <<_baked_cache, _update_queue_mutex, _getter_mutex, local_points,
                   cache, hist>>
    /\ WorkerFrame

\* _update_bake, lines 641 and 637: the sleep is over and the condition of the
\* inner while is read
UpdateBakeSleep ==
    /\ ~Terminated
    /\ _update_thread = "sleeping"
    /\ _update_thread' = IF _update_queued THEN "clear" ELSE "snapshot"
    /\ hist' = [hist EXCEPT !.sleep_over = TRUE]
    /\ UNCHANGED <<_baked_cache, _update_queued, _update_queue_mutex, _getter_mutex,
                   local_points, cache>>
    /\ WorkerFrame

\* a set_point_offset call is under way and the store holds neither what it
\* held when the call began nor what it holds when the call returns
PartWay == \E t \in Callers : /\ call[t].op = "set_point_offset"
                              /\ _points # call[t].before
                              /\ _points # call[t].after

\* _update_bake, lines 644-647
UpdateBakeSnapshot ==
    /\ ~Terminated
    /\ _update_thread = "snapshot"
    /\ _update_param_mutex = Nobody
    /\ local_points' = _points
    /\ _update_thread' = "compute"
    /\ hist' = [hist EXCEPT !.snapshot_torn = PartWay]
    /\ UNCHANGED <<_baked_cache, _update_queued, _update_queue_mutex, _getter_mutex,
                   cache>>
    /\ WorkerFrame

\* _update_bake, lines 648-674
UpdateBakeCompute ==
    /\ ~Terminated
    /\ _update_thread = "compute"
    /\ IF _update_queued
       THEN /\ _update_thread' = "started"
            /\ local_points' = <<>>
            /\ UNCHANGED cache
       ELSE /\ \E junk \in FreshCache(_bake_resolution, Len(local_points) = 0) :
                   cache' = UpdateBakeTable(local_points, _bake_resolution, junk)
            /\ _update_thread' = "publish"
            /\ UNCHANGED local_points
    /\ UNCHANGED <<_baked_cache, _update_queued, _update_queue_mutex, _getter_mutex,
                   hist>>
    /\ WorkerFrame

\* _update_bake, lines 676-683
UpdateBakePublish ==
    /\ ~Terminated
    /\ _update_thread = "publish"
    /\ _getter_mutex = [writer |-> Nobody, readers |-> {}]
    /\ _baked_cache' = cache
    /\ local_points' = <<>>
    /\ cache' = <<>>
    /\ _update_thread' = "started"
    /\ hist' = [hist EXCEPT !.published = @ + 1,
                            !.cache_torn = hist.snapshot_torn]
    /\ UNCHANGED <<_update_queued, _update_queue_mutex, _getter_mutex>>
    /\ WorkerFrame

\* UpdateBakeEmit with the thread function returning without the signal
UpdateBakeEmit_NoSignal ==
    /\ ~Terminated
    /\ _update_thread = "emit"
    /\ _update_thread' = "exited"
    /\ UNCHANGED <<_baked_cache, _update_queued, _update_queue_mutex, _getter_mutex,
                   local_points, cache, hist>>
    /\ WorkerFrame

\* _update_bake, lines 684-685: the signal is emitted and the thread function
\* returns
UpdateBakeEmit ==
    /\ ~Terminated
    /\ _update_thread = "emit"
    /\ _update_thread' = "exited"
    /\ hist' = [hist EXCEPT !.baked = @ + 1]
    /\ UNCHANGED <<_baked_cache, _update_queued, _update_queue_mutex, _getter_mutex,
                   local_points, cache>>
    /\ WorkerFrame

AddPointStep ==
    \E t \in Callers, x \in PipeXInputs, y \in YInputs, rt \in TangentInputs :
        AddPointLocked(t, Vector2(x, y), rt)

RemovePointStep ==
    \E t \in Callers, i \in 0..Len(_points) : RemovePointLocked(t, i)

SetPointValueStep ==
    \E t \in Callers, i \in 0..Len(_points), y \in YInputs :
        SetPointValueLocked(t, i, y)

SetPointCountStep ==
    \/ \E t \in Callers, n \in -1..MaxBakePoints : SetPointCountBegin(t, n)
    \/ \E t \in Callers : SetPointCountLock(t)
    \/ \E t \in Callers : SetPointCountRelock(t)

SetPointOffsetStep ==
    \/ \E t \in Callers, i \in 0..Len(_points), x \in PipeXInputs :
           SetPointOffsetBegin(t, i, x)
    \/ \E t \in Callers : SetPointOffsetRemove(t)
    \/ \E t \in Callers : SetPointOffsetAdd(t)
    \/ \E t \in Callers : SetPointOffsetRestore(t)
    \/ \E t \in Callers : SetPointOffsetResolve(t)

QueueUpdateStep ==
    \/ \E t \in Callers : QueueUpdateLock(t)
    \/ \E t \in Callers : QueueUpdateJoin(t)

UpdateBakeStep ==
    \/ UpdateBakeWhile
    \/ UpdateBakeClear
    \/ UpdateBakeSleep
    \/ UpdateBakeSnapshot
    \/ UpdateBakeCompute
    \/ UpdateBakePublish
    \/ UpdateBakeEmit

Next ==
    \/ AddPointStep
    \/ RemovePointStep
    \/ SetPointValueStep
    \/ SetPointCountStep
    \/ SetPointOffsetStep
    \/ QueueUpdateStep
    \/ UpdateBakeStep

\* the caller thread and the background thread, interleaved
Spec == Init /\ [][Next]_vars

-----------------------------------------------------------------------------
(* Calls made by two threads at once.  Only the calls that write the point *)
(* store inside one locked block are made: the others read and write the   *)
(* vector outside any lock and race with each other.                       *)

CallerThreads == {"c1", "c2"}

ThreadXInputs == {R(0), R(1)}

AddPointThreads ==
    \E t \in CallerThreads, x \in ThreadXInputs :
        AddPointLocked(t, Vector2(x, R(0)), R(0))

SetPointValueThreads ==
    \E t \in CallerThreads, i \in 0..Len(_points), y \in YInputs :
        SetPointValueLocked(t, i, y)

QueueUpdateThreads ==
    \/ \E t \in CallerThreads : QueueUpdateLock(t)
    \/ \E t \in CallerThreads : QueueUpdateJoin(t)

NextThreads ==
    \/ AddPointThreads
    \/ SetPointValueThreads
    \/ QueueUpdateThreads
    \/ UpdateBakeStep

\* two caller threads and the background thread, interleaved
SpecThreads == InitOf(CallerThreads) /\ [][NextThreads]_vars

-----------------------------------------------------------------------------
(* bake() statement by statement in one thread, sample_baked in another    *)

\* what bake() and sample_baked leave alone
BakeFrame ==
    UNCHANGED <<_points, _bake_resolution, _min_value, _max_value, _minmax_set_once,
                _update_queued, _update_thread, _update_queue_mutex,
                _update_param_mutex, _getter_mutex, local_points, cache>>

\* bake(), line 421: _baked_cache.clear(), no lock taken
BakeClear(t) ==
    /\ Begin(t)
    /\ _baked_cache' = <<>>
    /\ Jump(t, "bake_resize", [op |-> "bake", before |-> _baked_cache])
    /\ UNCHANGED <<_baked_cache_dirty, hist>>
    /\ BakeFrame

\* bake(), line 423: _baked_cache.resize(_bake_resolution)
BakeResize(t) ==
    /\ ~Terminated
    /\ pc[t] = "bake_resize"
    /\ _baked_cache' \in FreshCache(_bake_resolution, TRUE)
    /\ pc' = [pc EXCEPT ![t] = "bake_fill"]
    /\ UNCHANGED <<_baked_cache_dirty, call, ncalls, hist>>
    /\ BakeFrame

\* bake(), lines 425-436: the entries are written one after the other
BakeFill(t) ==
    /\ ~Terminated
    /\ pc[t] = "bake_fill"
    /\ _baked_cache' = WriteEnds(BakeLoop(_baked_cache, _points, _bake_resolution, 1),
                                 _points)
    /\ _baked_cache_dirty' = FALSE
    /\ Return(t)
    /\ UNCHANGED <<ncalls, hist>>
    /\ BakeFrame

\* no thread is inside bake(), between the clear and the last write, with the
\* table no longer what it was when bake() was entered
Whole ==
    \A t \in DOMAIN pc :
        pc[t] \in {"bake_resize", "bake_fill"} => _baked_cache = call[t].before

\* BetterCurve::sample_baked: the shared lock is taken, the table read and
\* the lock released
SampleBakedCall(t, p_offset) ==
    /\ Begin(t)
    /\ _getter_mutex.writer = Nobody
    /\ hist' = [hist EXCEPT !.last =
                    [op |-> "sample_baked", p_offset |-> p_offset,
                     table |-> _baked_cache, whole |-> Whole,
                     ret |-> sample_baked(_baked_cache, _points, p_offset)]]
    /\ UNCHANGED <<_baked_cache, _baked_cache_dirty, pc, call>>
    /\ BakeFrame

BakeThreads ==
    \/ \E t \in CallerThreads : BakeClear(t)
    \/ \E t \in CallerThreads : BakeResize(t)
    \/ \E t \in CallerThreads : BakeFill(t)

SampleBakedThreads == \E t \in CallerThreads : SampleBakedCall(t, <<1, 2>>)

NextReaders ==
    \/ AddPointThreads
    \/ QueueUpdateThreads
    \/ UpdateBakeStep
    \/ BakeThreads
    \/ SampleBakedThreads

\* the table written by bake() and by the background thread, and read
SpecReaders == InitOf(CallerThreads) /\ [][NextReaders]_vars

-----------------------------------------------------------------------------
(* The destructor, called by the thread that owns the curve when no call   *)
(* is under way                                                            *)

\* ~BetterCurve, line 15: joinable() is read
DestructorBegin(t) ==
    /\ ~Terminated
    /\ \A u \in DOMAIN pc : pc[u] = "idle"
    /\ pc' = [pc EXCEPT ![t] = IF Joinable THEN "destructor_join" ELSE "destroyed"]
    /\ UNCHANGED <<_points, _update_param_mutex, call, ncalls, hist>>
    /\ QueueFrame /\ CallerFrame

\* DestructorJoin with a join that does not wait for the thread function
DestructorJoin_NoWait(t) ==
    /\ ~Terminated
    /\ pc[t] = "destructor_join"
    /\ pc' = [pc EXCEPT ![t] = "destroyed"]
    /\ UNCHANGED <<_points, _update_param_mutex, call, ncalls, hist>>
    /\ QueueFrame /\ CallerFrame

\* ~BetterCurve, lines 16-18: join returns when the thread function has
\* returned, and the destructor returns
DestructorJoin(t) ==
    /\ ~Terminated
    /\ pc[t] = "destructor_join"
    /\ _update_thread = "exited"
    /\ pc' = [pc EXCEPT ![t] = "destroyed"]
    /\ UNCHANGED <<_points, _update_param_mutex, call, ncalls, hist>>
    /\ QueueFrame /\ CallerFrame

DestructorStep ==
    \/ \E t \in Callers : DestructorBegin(t)
    \/ \E t \in Callers : DestructorJoin(t)

NextDestroy ==
    \/ AddPointStep
    \/ SetPointValueStep
    \/ QueueUpdateStep
    \/ UpdateBakeStep
    \/ DestructorStep

\* ENABLED <<UpdateBakeCompute>>_vars
ComputeEnabled == ~Terminated /\ _update_thread = "compute"

\* the background thread is scheduled and its sleep ends: weak fairness of
\* each of its steps (WF_vars(UpdateBakeCompute) with ENABLED written out)
WorkerFairness ==
    /\ WF_vars(UpdateBakeWhile)
    /\ WF_vars(UpdateBakeClear)
    /\ WF_vars(UpdateBakeSleep)
    /\ WF_vars(UpdateBakeSnapshot)
    /\ ([]<>~ComputeEnabled \/ []<><<UpdateBakeCompute>>_vars)
    /\ WF_vars(UpdateBakePublish)
    /\ WF_vars(UpdateBakeEmit)

\* edits, the background thread and the destructor; a thread that can take a
\* step is scheduled in the end
SpecDestroy ==
    /\ Init
    /\ [][NextDestroy]_vars
    /\ WorkerFairness
    /\ WF_vars(DestructorStep)

-----------------------------------------------------------------------------
(* The scan of _update_bake, one sample per step.  The locals of the       *)
(* thread function (resolution, i, last_point_id) are kept in call[Worker].*)

Worker == "worker"

\* resolutions the scan is run at: samples at the quarters
MaxScanResolution == 5

\* points held by the store where the scan is run
MaxScanPoints == 3

\* calls made before and between the scans
MaxScanCalls == 4

ScanXInputs == {R(0), <<1, 4>>, <<1, 2>>, <<3, 4>>, R(1)}

InitScan == InitOf(Callers \cup {Worker})

\* the n-th point added has y = n, so that a y tells the points apart
AddPointScan ==
    /\ _update_thread # "compute"
    /\ CountCallOf(MaxScanCalls)
    /\ Len(_points) < MaxScanPoints
    /\ \E x \in ScanXInputs : add_point(Vector2(x, R(Len(_points))))

SetBakeResolutionScan ==
    /\ _update_thread # "compute"
    /\ ncalls < MaxScanCalls
    /\ \E r \in 1..MaxScanResolution : set_bake_resolution(r)

\* _update_bake, lines 636-657: the flag is cleared, the snapshot taken, the
\* local table resized and the cursor set to 0
ScanBegin ==
    /\ _update_thread = "started"
    /\ _update_queued
    /\ _update_queue_mutex = Nobody
    /\ _update_param_mutex = Nobody
    /\ _update_queued' = FALSE
    /\ local_points' = _points
    /\ cache' \in FreshCache(_bake_resolution, Len(_points) = 0)
    /\ call' = [call EXCEPT ![Worker] = [op |-> "_update_bake",
                                         resolution |-> _bake_resolution,
                                         i |-> 1, last_point_id |-> 0]]
    /\ _update_thread' = "compute"
    /\ UNCHANGED <<_points, _baked_cache, _baked_cache_dirty, _bake_resolution,
                   _min_value, _max_value, _minmax_set_once, _update_queue_mutex,
                   _update_param_mutex, _getter_mutex, pc, ncalls, hist>>

\* the offset of sample i
SampleX(i, resolution) == RDiv(R(i), R(resolution - 1))

\* _update_bake, lines 659-669: one pass of the outer for
ScanSample ==
    /\ _update_thread = "compute"
    /\ call[Worker].i < call[Worker].resolution - 1
    /\ LET x  == SampleX(call[Worker].i, call[Worker].resolution)
           id == Cursor(local_points, x, call[Worker].last_point_id)
       IN  /\ cache' = WriteAt(cache, call[Worker].i, _sample(x, local_points, id))
           /\ call' = [call EXCEPT ![Worker].i = @ + 1,
                                   ![Worker].last_point_id = id]
    /\ UNCHANGED <<_points, _baked_cache, _baked_cache_dirty, _bake_resolution,
                   _min_value, _max_value, _minmax_set_once, _update_queued,
                   _update_thread, _update_queue_mutex, _update_param_mutex,
                   _getter_mutex, local_points, pc, ncalls, hist>>

\* _update_bake, lines 671-685: the ends are written, the table is published
\* and the signal emitted
ScanEnd ==
    /\ _update_thread = "compute"
    /\ call[Worker].i >= call[Worker].resolution - 1
    /\ _getter_mutex = [writer |-> Nobody, readers |-> {}]
    /\ _baked_cache' = WriteEnds(cache, local_points)
    /\ _update_thread' = "exited"
    /\ call' = [call EXCEPT ![Worker] = NoCall]
    /\ hist' = [hist EXCEPT !.published = @ + 1, !.baked = @ + 1]
    /\ UNCHANGED <<_points, _baked_cache_dirty, _bake_resolution, _min_value,
                   _max_value, _minmax_set_once, _update_queued,
                   _update_queue_mutex, _update_param_mutex, _getter_mutex,
                   local_points, cache, pc, ncalls>>

NextScan ==
    \/ AddPointScan
    \/ SetBakeResolutionScan
    \/ ScanBegin
    \/ ScanSample
    \/ ScanEnd

\* edits and resolution changes, and the background thread's scan step by step
SpecScan == InitScan /\ [][NextScan]_vars

-----------------------------------------------------------------------------
(* Tangent modes on stores of up to three points at different offsets      *)

\* points held by the store where points are removed between Linear slots
MaxLinearPoints == 3

\* calls made in one behaviour of the Linear slots
MaxLinearCalls == 5

\* no two points at the same offset
DistinctX(pts) ==
    \A i, j \in 1..Len(pts) : i # j => pts[i].position.x # pts[j].position.x

AddPointLinear ==
    /\ CountCallOf(MaxLinearCalls)
    /\ Len(_points) < MaxLinearPoints
    /\ \E x \in TangentXInputs, y \in YInputs : add_point(Vector2(x, y))
    /\ DistinctX(_points')

RemovePointLinear ==
    /\ CountCallOf(MaxLinearCalls)
    /\ \E i \in 0..(Len(_points) - 1) : RemovePointCall(i)

SetPointModeLinear ==
    /\ CountCallOf(MaxLinearCalls)
    /\ \E i \in 0..(Len(_points) - 1), m \in ModeInputs :
           SetPointLeftModeCall(i, m) \/ SetPointRightModeCall(i, m)

SetPointValueLinear ==
    /\ CountCallOf(MaxLinearCalls)
    /\ \E i \in 0..(Len(_points) - 1), y \in YInputs : SetPointValueCall(i, y)

SetPointOffsetLinear ==
    /\ CountCallOf(MaxLinearCalls)
    /\ \E i \in 0..(Len(_points) - 1), x \in TangentXInputs : SetPointOffsetCall(i, x)
    /\ DistinctX(_points')

NextLinear ==
    \/ AddPointLinear
    \/ RemovePointLinear
    \/ SetPointModeLinear
    \/ SetPointValueLinear
    \/ SetPointOffsetLinear

\* points at different offsets added, removed, given tangent modes and moved
SpecLinear == Init /\ [][NextLinear]_vars

-----------------------------------------------------------------------------
(* The reflected property point_N/position                                 *)

\* points held by the store where the property is assigned
MaxReflectPoints == 2

\* calls made in one behaviour of the property
MaxReflectCalls == 3

\* BetterCurve::_set for the name point_<point_index>/position: the two
\* setters are called with the same index, the index returned by
\* set_point_offset is dropped
SetPositionCall(point_index, position) ==
    LET moved == set_point_offset(_points, point_index, position.x).points
    IN  /\ _update_param_mutex = Nobody
        /\ _points' = set_point_value(moved, point_index, position.y)
        /\ IF IndexOk(point_index, Len(_points)) THEN QueueUpdateCall ELSE NoQueueUpdate
        /\ hist' = [hist EXCEPT !.last = [op |-> "_set", index |-> point_index,
                                          position |-> position, before |-> _points]]
        /\ StoreFrame

AddPointReflect ==
    /\ CountCallOf(MaxReflectCalls)
    /\ Len(_points) < MaxReflectPoints
    /\ \E x \in TangentXInputs, y \in YInputs : add_point(Vector2(x, y))

SetPosition ==
    /\ CountCallOf(MaxReflectCalls)
    /\ \E i \in IndexInputs, x \in TangentXInputs, y \in YInputs :
           SetPositionCall(i, Vector2(x, y))

NextReflect == AddPointReflect \/ SetPosition

\* points added and repositioned through the reflected property
SpecReflect == Init /\ [][NextReflect]_vars

-----------------------------------------------------------------------------
(* Two caller threads and the background thread under fair scheduling      *)

RemovePointThreads ==
    \E t \in CallerThreads, i \in 0..Len(_points) : RemovePointLocked(t, i)

NextLive ==
    \/ AddPointThreads
    \/ RemovePointThreads
    \/ SetPointValueThreads
    \/ SampleBakedThreads
    \/ QueueUpdateThreads
    \/ UpdateBakeStep

\* a thread that can take a step takes it in the end: a caller inside
\* _queue_update gets the mutex once it stays free, and its join returns once
\* the thread function has returned
CallerFairness ==
    \A t \in CallerThreads :
        WF_vars(QueueUpdateLock(t)) /\ WF_vars(QueueUpdateJoin(t))

\* edits and reads by two threads, every thread scheduled fairly
SpecLive ==
    /\ InitOf(CallerThreads)
    /\ [][NextLive]_vars
    /\ WorkerFairness
    /\ CallerFairness

-----------------------------------------------------------------------------
(* Claims on the range manager (SpecRange)                                 *)

\* C7: while _minmax_set_once does not record both bounds as set, a
\* set_min_value(v) or set_max_value(v) call stores v verbatim.
C7_FirstWriteVerbatim ==
    /\ (hist.last.op = "set_min_value" /\ hist.last.once # 3)
           => _min_value = hist.last.arg
    /\ (hist.last.op = "set_max_value" /\ hist.last.once # 3)
           => _max_value = hist.last.arg

\* C8: once both bounds are recorded as set, set_min_value(v) stores
\* max_value - 0.01 when v > max_value - 0.01 and v otherwise, and
\* set_max_value(v) stores min_value + 0.01 when v < min_value + 0.01 and v
\* otherwise.
C8_RangeClamp ==
    /\ (hist.last.op = "set_min_value" /\ hist.last.once = 3)
           => _min_value = IF RLess(RSub(hist.last.max, <<1, 100>>), hist.last.arg)
                           THEN RSub(hist.last.max, <<1, 100>>)
                           ELSE hist.last.arg
    /\ (hist.last.op = "set_max_value" /\ hist.last.once = 3)
           => _max_value = IF RLess(hist.last.arg, RAdd(hist.last.min, <<1, 100>>))
                           THEN RAdd(hist.last.min, <<1, 100>>)
                           ELSE hist.last.arg

\* C8 witness: min = 0 and max = 1 both set, then set_min_value(0.999) gave 0.99
C8_Witness ==
    /\ hist.last.op = "set_min_value"
    /\ hist.last.once = 3
    /\ hist.last.min = R(0)
    /\ hist.last.max = R(1)
    /\ hist.last.arg = <<999, 1000>>
    /\ _min_value = <<99, 100>>

-----------------------------------------------------------------------------
(* Claims on the pipeline (Spec)                                           *)

\* no call is under way and the background thread has returned
Quiescent ==
    /\ \A t \in Callers : pc[t] = "idle"
    /\ _update_thread \in {"none", "exited"}
    /\ ~_update_queued

\* table is what _update_bake computes from points at the given resolution
TableMatches(table, points, resolution) ==
    \E junk \in FreshCache(resolution, Len(points) = 0) :
        table = UpdateBakeTable(points, resolution, junk)

\* C1: when two or more edits have signalled the background thread, each
\* before the sleep started by the first edit was over, then once the thread
\* has returned exactly one table has been published, and it is the table of
\* the points as they are after the last edit.  (Tables computed from a
\* store caught part-way through a call are the matter of C3.)
C1_DebounceCoalescing ==
    (Quiescent /\ hist.signalled >= 2 /\ ~hist.late /\ ~hist.cache_torn) =>
        /\ hist.published = 1
        /\ TableMatches(_baked_cache, _points, _bake_resolution)

\* C2: after the edits, once every call has returned and the background
\* thread has returned with nothing queued, the baked cache is the table
\* computed from the points the store holds.
C2_EventualConsistency ==
    (Quiescent /\ hist.signalled > 0) =>
        TableMatches(_baked_cache, _points, _bake_resolution)

\* C3: the table in the baked cache was computed from a snapshot taken when
\* no set_point_offset call was part-way through its changes to the store.
C3_NoTornSnapshot == ~hist.cache_torn

\* C5: a set_point_count(n) call leaves its locked block with n points, the
\* first n of the old ones when it shrinks, and never locks the mutex it
\* already holds, blocks for ever or ends the process.
C5_SetPointCount ==
    \A t \in Callers :
        call[t].op = "set_point_count" =>
            /\ pc[t] \in {"_queue_update", "join"} =>
                   /\ Len(_points) = call[t].p_count
                   /\ call[t].p_count < call[t].old_size
                          => _points = SubSeq(call[t].before, 1, call[t].p_count)
            /\ ~(pc[t] = "set_point_count_add" /\ _update_param_mutex = t)
            /\ pc[t] \notin RelockOutcomes

-----------------------------------------------------------------------------
(* Claims on the point store (SpecStore)                                   *)

\* C4: after every add_point and set_point_offset call the points are sorted
\* ascending by x, and the index returned is the position of the inserted or
\* moved point.
C4_OrderingInvariant ==
    /\ IsSorted(_points)
    /\ (hist.last.op \in {"add_point", "set_point_offset"} /\ hist.last.ret # -1)
           => /\ IndexOk(hist.last.ret, Len(_points))
              /\ At(_points, hist.last.ret).position
                     = Vector2(ClampX(hist.last.position.x), hist.last.position.y)

\* C4 witness: set_point_offset moved a point of a full store to another index
C4_Witness ==
    /\ hist.last.op = "set_point_offset"
    /\ Len(_points) = MaxPoints
    /\ hist.last.ret # -1
    /\ hist.last.ret # hist.last.index
    /\ At(_points, 0).position.x # At(_points, Len(_points) - 1).position.x

\* C6: clean_dupes keeps every point whose x exceeds its predecessor's x by
\* more than CMP_EPSILON, and leaves neighbours more than CMP_EPSILON apart.
C6_DedupeKeepsDistinct ==
    hist.last.op = "clean_dupes" =>
        /\ \A i \in 1..(Len(hist.last.before) - 1) :
               RLess(CMP_EPSILON, RSub(At(hist.last.before, i).position.x,
                                       At(hist.last.before, i - 1).position.x))
                   => \E j \in 0..(Len(_points) - 1) :
                          At(_points, j) = At(hist.last.before, i)
        /\ \A i \in 1..(Len(_points) - 1) :
               RLess(CMP_EPSILON, RSub(At(_points, i).position.x,
                                       At(_points, i - 1).position.x))

-----------------------------------------------------------------------------
(* Claims on sampling and bake() (SpecBake)                                *)

\* The Direct Sampler of the specification: the segment found by get_index,
\* evaluated by _sample
DirectSample(points, x) ==
    IF Len(points) = 0 THEN R(0)
    ELSE IF Len(points) = 1 THEN At(points, 0).position.y
    ELSE _sample(x, points, get_index(points, x))

\* C9: sample(x) is determined by the current points alone, whatever the
\* Baked Cache holds: with one point it is that point's y, and when the first
\* and last x are 0 and 1, sample(0) and sample(1) are the first and the last
\* point's y.
C9_SampleIsExact ==
    /\ Len(_points) = 1
           => \A x \in {R(0), R(1)} :
                  sample(_baked_cache, _points, x) = DirectSample(_points, x)
    /\ (/\ Len(_points) > 0
        /\ At(_points, 0).position.x = R(0)
        /\ At(_points, Len(_points) - 1).position.x = R(1))
           => /\ sample(_baked_cache, _points, R(0)) = At(_points, 0).position.y
              /\ sample(_baked_cache, _points, R(1))
                     = At(_points, Len(_points) - 1).position.y

\* C10: after bake() on a curve that has points, every interior entry i of
\* the table is the Direct Sampler's value of the current points at
\* i / (resolution - 1).
C10_BakeFromPoints ==
    (hist.last.op = "bake" /\ Len(_points) > 0) =>
        \A i \in 1..(_bake_resolution - 2) :
            At(_baked_cache, i)
                = DirectSample(_points, RDiv(R(i), R(_bake_resolution - 1)))

-----------------------------------------------------------------------------
(* Claims on the table (SpecBake), continued                               *)

\* a step in which bake() or the background thread has produced a table
TableProduced ==
    \/ hist'.published # hist.published
    \/ ncalls' # ncalls /\ hist'.last.op = "bake"

\* C11: every table produced by bake() or by the background thread from a
\* store that is not empty has entry 0 equal to the first point's y and entry
\* resolution - 1 equal to the last point's y, at every resolution.
C11_EndpointExactness ==
    [][(TableProduced /\ Len(_points) > 0) =>
           /\ At(_baked_cache', 0) = At(_points, 0).position.y
           /\ At(_baked_cache', _bake_resolution - 1)
                  = At(_points, Len(_points) - 1).position.y]_vars

\* C11 as amended: at a resolution of 2 or more the two end entries are the
\* first and the last point's y; at resolution 1 the only entry is the last
\* point's y.
C11_EndpointsFromTwo ==
    [][(TableProduced /\ Len(_points) > 0) =>
           /\ Len(_baked_cache') = _bake_resolution
           /\ At(_baked_cache', _bake_resolution - 1)
                  = At(_points, Len(_points) - 1).position.y
           /\ _bake_resolution >= 2
                  => At(_baked_cache', 0) = At(_points, 0).position.y]_vars

\* C11 witness: bake() at resolution 2 on two points of different y
C11_Witness ==
    /\ hist.last.op = "bake"
    /\ _bake_resolution = 2
    /\ Len(_points) = 2
    /\ At(_points, 0).position.y # At(_points, 1).position.y
    /\ _baked_cache = <<At(_points, 0).position.y, At(_points, 1).position.y>>

-----------------------------------------------------------------------------
(* Claims on get_index (SpecLocate)                                        *)

\* C12: on a sorted store of two or more points get_index(x) returns 0 when x
\* is before the first point, the last index when x is at or after the last
\* point, and otherwise the i with points[i].x <= x < points[i+1].x.
C12_Locate ==
    (hist.last.op = "get_index" /\ Len(_points) >= 2) =>
        LET x == hist.last.p_offset
            i == hist.last.ret
            n == Len(_points)
        IN  IF RLess(x, At(_points, 0).position.x) THEN i = 0
            ELSE IF RLeq(At(_points, n - 1).position.x, x) THEN i = n - 1
            ELSE /\ i \in 0..(n - 2)
                 /\ RLeq(At(_points, i).position.x, x)
                 /\ RLess(x, At(_points, i + 1).position.x)

\* C12 as amended: get_index(x) returns 0 when x is before the first point,
\* the last index when x is after the last point, and otherwise an i with
\* points[i].x <= x <= points[i+1].x.
C12_LocateClosed ==
    (hist.last.op = "get_index" /\ Len(_points) >= 2) =>
        LET x == hist.last.p_offset
            i == hist.last.ret
            n == Len(_points)
        IN  IF RLess(x, At(_points, 0).position.x) THEN i = 0
            ELSE IF RLess(At(_points, n - 1).position.x, x) THEN i = n - 1
            ELSE /\ i \in 0..(n - 2)
                 /\ RLeq(At(_points, i).position.x, x)
                 /\ RLeq(x, At(_points, i + 1).position.x)

\* C12 witness: four points, the offset inside the third segment
C12_Witness ==
    /\ hist.last.op = "get_index"
    /\ Len(_points) = 4
    /\ hist.last.p_offset = <<3, 4>>
    /\ hist.last.ret = 2
    /\ At(_points, 2).position.x = <<1, 2>>
    /\ At(_points, 3).position.x = R(1)

-----------------------------------------------------------------------------
(* Claims on the setters (SpecSetters)                                     *)

IndexedOps ==
    {"remove_point", "set_point_value", "set_point_offset",
     "set_point_left_tangent", "set_point_right_tangent",
     "set_point_left_mode", "set_point_right_mode"}

\* a step that is a call whose precondition does not hold in the state it is
\* made in
RejectedCall ==
    /\ ncalls' = ncalls + 1
    /\ \/ /\ hist'.last.op \in IndexedOps
          /\ ~(0 <= hist'.last.index /\ hist'.last.index <= Len(_points) - 1)
       \/ /\ hist'.last.op = "set_point_count"
          /\ hist'.last.count < 0
       \/ /\ hist'.last.op = "set_bake_resolution"
          /\ (hist'.last.resolution < 1 \/ hist'.last.resolution > 1000)

\* C13: a call with an index outside 0..count-1, a negative count or a
\* resolution outside 1..1000 changes neither the points, the resolution nor
\* the baked cache, queues no update and starts no thread, leaves every mutex
\* free, and set_point_offset returns -1.
C13_RejectedCallsChangeNothing ==
    [][RejectedCall =>
           /\ UNCHANGED <<_points, _bake_resolution, _baked_cache, _baked_cache_dirty,
                          _update_queued, _update_thread>>
           /\ _update_param_mutex' = Nobody
           /\ _update_queue_mutex' = Nobody
           /\ _getter_mutex' = [writer |-> Nobody, readers |-> {}]
           /\ hist'.last.op = "set_point_offset" => hist'.last.ret = -1]_vars

\* C13 witness: set_point_left_mode with the index one past the last point, on
\* a store whose table has been published, has started no thread
C13_Witness ==
    /\ hist.last.op = "set_point_left_mode"
    /\ Len(_points) > 0
    /\ hist.last.index = Len(_points)
    /\ _baked_cache # <<>>
    /\ _update_thread = "exited"

-----------------------------------------------------------------------------
(* Claims on the bulk import (SpecData)                                    *)

\* an Array the import must refuse: its length is not a multiple of the tuple
\* width, or a tuple has a position that is no Vector2, a tangent that is no
\* number, or a mode that is no integer of the enum range
Malformed(p_input) ==
    \/ Len(p_input) % ELEMS # 0
    \/ \E j \in 0..(Len(p_input) \div ELEMS - 1) :
           LET i == j * ELEMS
           IN  \/ At(p_input, i).type # "VECTOR2"
               \/ \E k \in {i + 1, i + 2} : At(p_input, k).type \notin {"INT", "FLOAT"}
               \/ \E k \in {i + 3, i + 4} :
                      \/ At(p_input, k).type # "INT"
                      \/ At(p_input, k).value \notin {TANGENT_FREE, TANGENT_LINEAR}

\* an Array of whole tuples of the types get_data writes
WellTyped(p_input) ==
    /\ Len(p_input) % ELEMS = 0
    /\ \A j \in 0..(Len(p_input) \div ELEMS - 1) :
           LET i == j * ELEMS
           IN  /\ At(p_input, i).type = "VECTOR2"
               /\ \A k \in {i + 1, i + 2} : At(p_input, k).type = "FLOAT"
               /\ \A k \in {i + 3, i + 4} :
                      /\ At(p_input, k).type = "INT"
                      /\ At(p_input, k).value \in {TANGENT_FREE, TANGENT_LINEAR}

\* the points an Array of whole tuples stands for
Imported(p_input) ==
    [j1 \in 1..(Len(p_input) \div ELEMS) |->
        LET i == (j1 - 1) * ELEMS
        IN  Point(At(p_input, i).value,
                  IF At(p_input, i + 1).type = "INT"
                  THEN R(At(p_input, i + 1).value) ELSE At(p_input, i + 1).value,
                  IF At(p_input, i + 2).type = "INT"
                  THEN R(At(p_input, i + 2).value) ELSE At(p_input, i + 2).value,
                  At(p_input, i + 3).value, At(p_input, i + 4).value)]

\* the step is a call of set_data
SetDataStep == hist'.last.op = "set_data" /\ hist'.exported = hist.exported

\* C14: set_data is all or nothing.  A call either leaves the point store as
\* it was and queues no rebuild, or makes the store exactly the imported points
\* and queues a rebuild; a malformed Array always gets the former, an Array of
\* well-typed tuples always the latter.
C14_ImportAllOrNothing ==
    [][SetDataStep =>
        LET p_input == hist'.last.input
            nothing == UNCHANGED <<_points, _update_queued, _update_thread,
                                   _baked_cache, _baked_cache_dirty>>
            all     == /\ Len(p_input) % ELEMS = 0
                       /\ _points' = Imported(p_input)
                       /\ _update_queued' /\ _update_thread' = "started"
        IN  /\ nothing \/ all
            /\ Malformed(p_input) => nothing
            /\ WellTyped(p_input) => all]_vars

\* C14 witness: two points were stored, and an Array of two tuples whose last
\* mode is out of range, the first tuple being importable, has left them alone
C14_Witness ==
    /\ hist.last.op = "set_data"
    /\ Len(hist.last.input) = 2 * ELEMS
    /\ TupleValid(hist.last.input, 0)
    /\ At(hist.last.input, 2 * ELEMS - 1) = VInt(-1)
    /\ Len(hist.last.before) = 2
    /\ At(hist.last.before, 0).position # At(hist.last.input, 0).value
    /\ _points = hist.last.before

\* the last call was set_data fed with the Array the last get_data returned
RoundTrip ==
    /\ hist.exported.done
    /\ hist.last.op = "set_data"
    /\ hist.last.input = hist.exported.data

-----------------------------------------------------------------------------
(* Claims on the tangent modes (SpecTangents)                              *)

\* the slope (q.y - p.y) / (q.x - p.x)
Slope(p, q) ==
    RDiv(RSub(q.position.y, p.position.y), RSub(q.position.x, p.position.x))

\* the last call moved a point, which is now at index b
MovedTo(b) ==
    /\ IndexOk(b, Len(_points))
    /\ \/ hist.last.op = "set_point_value" /\ hist.last.index = b
       \/ hist.last.op = "set_point_offset" /\ hist.last.index = b /\ hist.last.ret = b

\* C16: after set_point_value or set_point_offset has moved point B without
\* changing its index, a Linear right tangent of B's left neighbour and a
\* Linear left tangent of B's right neighbour equal the slope between the
\* neighbour and B at their new positions (the two being at different
\* offsets).
C16_LinearReciprocity ==
    \A b \in 0..(Len(_points) - 1) :
        MovedTo(b) =>
            /\ (/\ b > 0
                /\ At(_points, b - 1).right_mode = TANGENT_LINEAR
                /\ At(_points, b - 1).position.x # At(_points, b).position.x)
               => At(_points, b - 1).right_tangent = Slope(At(_points, b - 1), At(_points, b))
            /\ (/\ b + 1 < Len(_points)
                /\ At(_points, b + 1).left_mode = TANGENT_LINEAR
                /\ At(_points, b + 1).position.x # At(_points, b).position.x)
               => At(_points, b + 1).left_tangent = Slope(At(_points, b), At(_points, b + 1))

\* C16 witness: A = (0,0) has a Linear right mode and B, its right neighbour,
\* was moved from offset 1 to offset 1/2 at height 1: A's right tangent is 2
C16_Witness ==
    /\ Len(_points) = 2
    /\ hist.last.op = "set_point_offset"
    /\ hist.last.index = 1 /\ hist.last.ret = 1
    /\ hist.last.position = Vector2(<<1, 2>>, R(1))
    /\ At(_points, 0).position = Vector2(R(0), R(0))
    /\ At(_points, 0).right_mode = TANGENT_LINEAR
    /\ At(_points, 0).right_tangent = R(2)

-----------------------------------------------------------------------------
(* Claims on the calls of two threads (SpecThreads)                        *)

\* the thread function is between its first statement and its return
WorkerRunning == _update_thread \notin {"none", "exited"}

\* the step starts a thread: _update_queued is set by line 624 alone, next to
\* the construction of the std::thread, and the thread function returns with
\* the flag cleared
WorkerStarted == ~_update_queued /\ _update_queued'

\* C17: a background thread is started only when none is running, whatever
\* the interleaving of the calls of the two caller threads; _update_thread
\* holds one thread at a time, so two can only run if one is started while
\* the other has not returned.
C17_OneWorker ==
    [][WorkerStarted =>
        /\ ~WorkerRunning
        /\ _update_thread' = "started"
        /\ \A t \in CallerThreads : pc[t] = "join" => pc'[t] # "join"]_vars

\* C17 witness: the first background thread has run to its end and a second
\* one, started by a later call, is running while a caller thread is inside
\* _queue_update
C17_Witness ==
    /\ hist.baked >= 1
    /\ WorkerRunning
    /\ _update_thread # "started"
    /\ \E t \in CallerThreads : pc[t] = "_queue_update"
    /\ hist.signalled >= 2

-----------------------------------------------------------------------------
(* Claims on the locks (Spec)                                              *)

\* C18: no caller thread waits for the background thread: while the thread
\* function is running, no caller holds _update_queue_mutex or is inside
\* join(); a call arriving then leaves _update_queued set and returns.
C18_CallersNeverWait ==
    \A t \in DOMAIN pc :
        (pc[t] = "join" \/ _update_queue_mutex = t) => ~WorkerRunning

\* C19: every write to the point vector is made by a thread that holds
\* _update_param_mutex, the writes of set_point_offset that restore the
\* tangents and modes and re-resolve the auto tangents included; the locked
\* blocks and the snapshot take and release the mutex within one step, and
\* the background thread computes the table holding no lock.
C19_WritesUnderLock ==
    /\ ~hist.unlocked_write
    /\ _update_thread \in {"compute", "publish"} => _update_param_mutex # "worker"

\* C20: sample_baked never reads a table that is being replaced: what it
\* reads is not the cleared, the resized or the partly written vector of a
\* bake() under way in another thread, nor of the background thread's
\* publication.
C20_ReadersSeeWholeTables ==
    hist.last.op = "sample_baked" => hist.last.whole

-----------------------------------------------------------------------------
(* Claims on the destructor (SpecDestroy)                                  *)

\* the destructor has returned
Destroyed == \E t \in DOMAIN pc : pc[t] = "destroyed"

\* C21: once the destructor has returned, the background thread is not
\* between the first statement and the return of its function, so none of its
\* steps (sleep, snapshot, computation, publication, signal) comes later; and
\* a destructor that has been entered returns.
C21_NoOrphanedWorker ==
    /\ [](Destroyed => ~WorkerRunning)
    /\ [][Destroyed => UNCHANGED <<_baked_cache, local_points, cache, _update_queued,
                                   _update_thread, hist>>]_vars
    /\ (\E t \in DOMAIN pc : pc[t] = "destructor_join") ~> Destroyed

\* C21 witness: the destructor found a thread to join and has returned after
\* that thread published a table and emitted its signal
C21_Witness ==
    /\ Destroyed
    /\ _update_thread = "exited"
    /\ hist.published >= 1
    /\ hist.baked >= 1
    /\ Len(_baked_cache) = _bake_resolution

\* C22: every publication of a table is followed by one "baked" signal before
\* the next publication, and no signal comes without a publication: the
\* signals never outnumber the publications, at most one publication awaits
\* its signal, it awaits it only while the thread function is on its way to
\* emit_signal, and the signal comes in the end.
C22_BakedPerPublish ==
    /\ [](/\ hist.baked <= hist.published
          /\ hist.published <= hist.baked + 1
          /\ hist.published = hist.baked + 1 => _update_thread \in {"started", "emit"}
          /\ ~WorkerRunning => hist.published = hist.baked)
    /\ (hist.published = hist.baked + 1) ~> (hist.published = hist.baked)

\* C22 witness: two tables were published, each by its own run of the thread
\* function, and two signals emitted
C22_Witness ==
    /\ hist.published = 2
    /\ hist.baked = 2
    /\ _update_thread = "exited"


-----------------------------------------------------------------------------
(* Claim on the length of the table (SpecSetters)                          *)

\* C23: whenever no call is under way and the background thread is not
\* running, bake_resolution lies in 1..1000 and the table is either empty or
\* has bake_resolution entries.
C23_CacheLength ==
    Quiescent =>
        /\ _bake_resolution \in 1..1000
        /\ \/ _baked_cache = <<>>
           \/ Len(_baked_cache) = _bake_resolution


-----------------------------------------------------------------------------
(* Claim on the moving cursor (SpecScan)                                   *)

\* the outer for of _update_bake has made one pass
Scanned ==
    /\ call[Worker].op = "_update_bake"
    /\ call'[Worker].op = "_update_bake"
    /\ call'[Worker].i = call[Worker].i + 1

\* the index a search from the first point selects for x
FreshSearch(points, x) == Cursor(points, x, 0)

\* C24: on a sorted snapshot, each pass of the scan leaves the cursor on the
\* index a search from the first point selects: index 0 and the first point's
\* y when x is at or before the first point, the last point's y when x is
\* after the last point, and otherwise the k with points[k].x < x <=
\* points[k+1].x; the cursor stays inside the snapshot and ends no further
\* left than one step before where it started.
C24_CursorMatchesSearch ==
    [][(Scanned /\ IsSorted(local_points)) =>
          LET i   == call[Worker].i
              x   == SampleX(i, call[Worker].resolution)
              c   == call[Worker].last_point_id
              k   == call'[Worker].last_point_id
              n   == Len(local_points)
              y   == At(cache', i)
          IN  /\ k = FreshSearch(local_points, x)
              /\ k >= c - 1
              /\ k >= 0
              /\ n = 0 => k = 0 /\ y = R(0)
              /\ n > 0 =>
                    /\ k < n
                    /\ RLeq(x, At(local_points, 0).position.x)
                          => k = 0 /\ y = At(local_points, 0).position.y
                    /\ RLess(At(local_points, n - 1).position.x, x)
                          => k = n - 1 /\ y = At(local_points, n - 1).position.y
                    /\ (/\ RLess(At(local_points, 0).position.x, x)
                        /\ RLeq(x, At(local_points, n - 1).position.x))
                          => /\ k + 1 < n
                             /\ RLess(At(local_points, k).position.x, x)
                             /\ RLeq(x, At(local_points, k + 1).position.x)
      ]_vars

\* C24 witness: a scan of three points at four or more samples is over; its
\* first sample lay before the first point and its cursor has moved on since
C24_Witness ==
    /\ _update_thread = "compute"
    /\ call[Worker].resolution >= 4
    /\ call[Worker].i = call[Worker].resolution - 1
    /\ Len(local_points) = 3
    /\ RLess(SampleX(1, call[Worker].resolution), At(local_points, 0).position.x)
    /\ call[Worker].last_point_id >= 1
    /\ RLess(At(local_points, 1).position.x, At(local_points, 2).position.x)


-----------------------------------------------------------------------------
(* Claim on the order of the store under bulk import (SpecData)            *)

\* C25: in every state reached by public operations, set_data among them,
\* the points are stored by ascending x.
C25_AlwaysSorted == IsSorted(_points)


-----------------------------------------------------------------------------
(* Claim on the Linear slots (SpecLinear)                                  *)

\* C26: after every call, every tangent whose mode is Linear and which has a
\* neighbour on its side is the slope of the straight line to that neighbour.
C26_LinearSlots ==
    \A i \in 0..(Len(_points) - 1) :
        /\ (i > 0 /\ At(_points, i).left_mode = TANGENT_LINEAR)
               => At(_points, i).left_tangent = Slope(At(_points, i - 1), At(_points, i))
        /\ (i + 1 < Len(_points) /\ At(_points, i).right_mode = TANGENT_LINEAR)
               => At(_points, i).right_tangent = Slope(At(_points, i), At(_points, i + 1))


-----------------------------------------------------------------------------
(* Claim on the span of the range (SpecRange)                              *)

\* C28: once set_min_value and set_max_value have each been called, max_value
\* - min_value is at least 0.01, whatever calls follow.
C28_MinimumSpan ==
    hist.range_set = {"min", "max"}
        => RLeq(MIN_Y_RANGE, RSub(_max_value, _min_value))

\* C28 witness: the minimum was set to 5 on a new curve and the maximum then
\* set below it: the maximum is 5.01, and _minmax_set_once records one bound
C28_Witness ==
    /\ hist.range_set = {"min", "max"}
    /\ _minmax_set_once = 2
    /\ _min_value = R(5)
    /\ _max_value = <<501, 100>>
    /\ hist.last.op = "set_max_value"
    /\ hist.last.arg = R(3)


-----------------------------------------------------------------------------
(* Claim on the reflected property (SpecReflect)                           *)

\* the positions of the points, in the order of the store
Positions(pts) == [k \in 1..Len(pts) |-> pts[k].position]

\* C29: after point_N/position = (x, y) has been assigned for a valid N, some
\* point of the store is at (clamp(x), y) and the other points are the ones
\* that were stored beside point N before, at their positions and in their order.
C29_OnePointRepositioned ==
    (hist.last.op = "_set" /\ IndexOk(hist.last.index, Len(hist.last.before))) =>
        \E j \in 0..(Len(_points) - 1) :
            /\ At(_points, j).position
                   = Vector2(ClampX(hist.last.position.x), hist.last.position.y)
            /\ RemoveAt(Positions(_points), j)
                   = RemoveAt(Positions(hist.last.before), hist.last.index)


-----------------------------------------------------------------------------
(* Claim on waiting (SpecLive)                                             *)

\* C27: no caller and no run of the thread function waits for ever on a
\* mutex or on a join: every call under way returns, and every run of the
\* thread function ends.
C27_EveryCallReturns ==
    /\ \A t \in CallerThreads : (pc[t] # "idle") ~> (pc[t] = "idle")
    /\ WorkerRunning ~> ~WorkerRunning

\* C27 witness: one caller waits in join with the queue mutex held, the other
\* waits for that mutex, and the thread function is asleep
C27_Witness ==
    /\ \E t, u \in CallerThreads :
           /\ pc[t] = "join"
           /\ pc[u] = "_queue_update"
           /\ _update_queue_mutex = t
    /\ _update_thread = "sleeping"

====
